---------------------------- MODULE Spec2Model ----------------------------
(***************************************************************************)
(* HiveSwarming: the .reg export codec (InternalToRegfile.cpp renders a    *)
(* RegistryKey tree to text, RegfileToInternal.cpp parses the text back),  *)
(* and the main flow of the program (wmain, InternalToHive).               *)
(*                                                                         *)
(* Text is a sequence of UTF-16 code units (naturals); a std::wstring_view *)
(* over the file is a pair (s, p): the buffer s and the 1-based index p of *)
(* the first code unit of the view, so ReadHead.empty() is p > Len(s).     *)
(* HRESULT values are the strings "S_OK", "E_UNEXPECTED", ...              *)
(***************************************************************************)
EXTENDS Naturals, Integers, Sequences, FiniteSets, TLC

(***************************************************************************)
(* Constants::RegFiles (Constants.h) and the registry value types          *)
(***************************************************************************)
NewLines == <<13, 10>>
Preamble == <<65279,
              87, 105, 110, 100, 111, 119, 115, 32,
              82, 101, 103, 105, 115, 116, 114, 121, 32,
              69, 100, 105, 116, 111, 114, 32,
              86, 101, 114, 115, 105, 111, 110, 32,
              53, 46, 48, 48, 13, 10,
              13, 10>>
KeyOpening == 91
PathSeparator == 92
KeyClosing == 93
DefaultValue == <<64>>
StringDelimiter == 34
StringDelimiterEscape == 92
ValueNameSeparator == 61
DwordPrefix == <<100, 119, 111, 114, 100>>
QwordPrefix == <<113, 119, 111, 114, 100>>
HexPrefix == <<104, 101, 120>>
MultiSzPrefix == <<109, 117, 108, 116, 105, 95, 115, 122>>
ExpandSzPrefix == <<101, 120, 112, 97, 110, 100, 95, 115, 122>>
HexTypeSpecOpening == 40
HexTypeSpecClosing == 41
ValueTypeAndDataSeparator == 58
MultiSzSeparator == 44
HexByteSeparator == 44
HexWrappingLimit == 80
MultiSzWrappingLimit == 80
HexNewLineLeadingSpaces == 2
LeadingSpace == 32
EscapedNewLine == <<92, 13, 10>>

REG_NONE == 0
REG_SZ == 1
REG_EXPAND_SZ == 2
REG_BINARY == 3
REG_DWORD == 4
REG_MULTI_SZ == 7
REG_QWORD == 11

SUCCEEDED(hr) == hr = "S_OK"
FAILED(hr) == hr # "S_OK"

(***************************************************************************)
(* Helpers on code-unit sequences                                          *)
(***************************************************************************)
\* v.length() >= str.length() && std::equal(str, v) for the view (s, p)
StartsWithAt(s, p, str) ==
    /\ p + Len(str) - 1 <= Len(s)
    /\ \A i \in 1..Len(str) : s[p + i - 1] = str[i]

\* the one-character overload: !v.empty() && v[0] == c
CharAt(s, p, c) == p <= Len(s) /\ s[p] = c

\* std::wstring::find(pat, from): 1-based index of the first match at or
\* after from, 0 for npos
Find(s, pat, from) ==
    LET found == {i \in from..(Len(s) + 1 - Len(pat)) : StartsWithAt(s, i, pat)}
    IN  IF found = {} THEN 0 ELSE CHOOSE i \in found : \A j \in found : i <= j

RECURSIVE SubstituteFrom(_, _, _, _)
SubstituteFrom(s, pat, rep, from) ==
    LET pos == Find(s, pat, from) IN
    IF pos = 0 THEN s
    ELSE SubstituteFrom(SubSeq(s, 1, pos - 1) \o rep \o SubSeq(s, pos + Len(pat), Len(s)),
                        pat, rep, pos + Len(rep))

GlobalStringSubstitute(String, Pattern, Replacement) ==
    IF Pattern = <<>> THEN String ELSE SubstituteFrom(String, Pattern, Replacement, 1)

\* one lowercase hexadecimal digit, as a code unit
HexDigit(d) == IF d < 10 THEN 48 + d ELSE 87 + d

\* std::hex << n: the digits of n, no leading zero, "0" for zero
RECURSIVE HexOf(_)
HexOf(n) == IF n < 16 THEN <<HexDigit(n)>> ELSE Append(HexOf(n \div 16), HexDigit(n % 16))

\* std::hex << std::setw(w) << std::setfill('0') << n (setw is a minimum width)
RECURSIVE ZeroPad(_, _)
ZeroPad(str, w) == IF Len(str) >= w THEN str ELSE ZeroPad(<<48>> \o str, w)

HexFixed(n, w) == ZeroPad(HexOf(n), w)

\* (PWCHAR) data, size / sizeof(WCHAR): little-endian code units of an even-sized buffer
ToWstring(bytes) == [i \in 1..(Len(bytes) \div 2) |-> bytes[2 * i - 1] + 256 * bytes[2 * i]]

\* the bytes of a wstring as it lies in memory
ToBytes(w) == [i \in 1..(2 * Len(w)) |-> IF i % 2 = 1 THEN w[(i + 1) \div 2] % 256
                                                       ELSE w[i \div 2] \div 256]

\* std::hex << std::setw(2 * sizeof(T)) << std::setfill('0') << *(T*)data: the
\* little-endian number held by the bytes, most significant digit first.  The
\* number is kept as its bytes (a DWORD does not fit the integers of TLC);
\* it is below 2^(8 * sizeof(T)), so the width is exactly 2 * sizeof(T).
RECURSIVE HexOfLittleEndian(_)
HexOfLittleEndian(bytes) ==
    IF bytes = <<>> THEN <<>> ELSE HexOfLittleEndian(Tail(bytes)) \o HexFixed(bytes[1], 2)

Spaces(n) == [i \in 1..n |-> LeadingSpace]

(***************************************************************************)
(* InternalToRegfile.cpp: rendering.  Every Render... operator gives the   *)
(* record [Result, Text]: the HRESULT returned and the text handed to      *)
(* WriteStringBufferToFile, writes to the open handle succeeding.          *)
(***************************************************************************)
\* the bytes written before a wrap when the line is wrapped once it is over
\* HexWrappingLimit - 3
BytesBeforeWrapAtLimit(CurLineSizeSoFar) ==
    IF CurLineSizeSoFar > HexWrappingLimit - 3 THEN 1
    ELSE (HexWrappingLimit - 3 - CurLineSizeSoFar) \div 3 + 1

\* the bytes written before a wrap when the line is wrapped once it is over
\* HexWrappingLimit
BytesBeforeWrapPastLimit(CurLineSizeSoFar) ==
    IF CurLineSizeSoFar > HexWrappingLimit THEN 1
    ELSE (HexWrappingLimit - CurLineSizeSoFar) \div 3 + 1

\* the number of bytes the loop of RenderBinaryValue writes before it wraps
\* the line: CurLineSizeSoFar grows by 3 with every byte and its separator,
\* and the line is wrapped once it is over HexWrappingLimit - 4
BytesBeforeWrap(CurLineSizeSoFar) ==
    IF CurLineSizeSoFar > HexWrappingLimit - 4 THEN 1
    ELSE (HexWrappingLimit - 4 - CurLineSizeSoFar) \div 3 + 1

\* n bytes from byte i on, each with its two digits and a space
HexBytesWithSpaces(BinaryValue, i, n) ==
    [c \in 1..(3 * n) |->
        IF c % 3 = 0 THEN 32
        ELSE HexFixed(BinaryValue[i + (c - 1) \div 3], 2)[((c - 1) % 3) + 1]]

\* n bytes from byte i on, each with its two digits and the separator
HexBytesWithSeparators(BinaryValue, i, n) ==
    [c \in 1..(3 * n) |->
        IF c % 3 = 0 THEN HexByteSeparator
        ELSE HexFixed(BinaryValue[i + (c - 1) \div 3], 2)[((c - 1) % 3) + 1]]

RECURSIVE RenderBinaryLoopWrappingLast(_, _, _, _)
\* the loop over the bytes with the separator and the wrap written after
\* the last byte too
RenderBinaryLoopWrappingLast(BinaryValue, i, CurLineSizeSoFar, Stream) ==
    IF i > Len(BinaryValue) THEN Stream
    ELSE IF i + BytesBeforeWrap(CurLineSizeSoFar) - 1 > Len(BinaryValue)
    THEN Stream \o HexBytesWithSeparators(BinaryValue, i, Len(BinaryValue) - i)
                \o HexFixed(BinaryValue[Len(BinaryValue)], 2)
    ELSE RenderBinaryLoopWrappingLast(BinaryValue, i + BytesBeforeWrap(CurLineSizeSoFar),
                          HexNewLineLeadingSpaces,
                          Stream \o HexBytesWithSeparators(BinaryValue, i,
                                                           BytesBeforeWrap(CurLineSizeSoFar))
                                 \o EscapedNewLine \o Spaces(HexNewLineLeadingSpaces))

RECURSIVE RenderBinaryLoop(_, _, _, _)
\* the loop over the bytes of RenderBinaryValue from byte i on, one line of
\* the output at a time: the last byte has no separator and no wrap after it
RenderBinaryLoop(BinaryValue, i, CurLineSizeSoFar, Stream) ==
    IF i > Len(BinaryValue) THEN Stream
    ELSE IF i + BytesBeforeWrap(CurLineSizeSoFar) - 1 >= Len(BinaryValue)
    THEN Stream \o HexBytesWithSeparators(BinaryValue, i, Len(BinaryValue) - i)
                \o HexFixed(BinaryValue[Len(BinaryValue)], 2)
    ELSE RenderBinaryLoop(BinaryValue, i + BytesBeforeWrap(CurLineSizeSoFar),
                          HexNewLineLeadingSpaces,
                          Stream \o HexBytesWithSeparators(BinaryValue, i,
                                                           BytesBeforeWrap(CurLineSizeSoFar))
                                 \o EscapedNewLine \o Spaces(HexNewLineLeadingSpaces))

\* BinaryPrefix leaving the type out for every type
BinaryPrefixWithoutType(Type) == HexPrefix \o <<ValueTypeAndDataSeparator>>

BinaryPrefix(Type) ==
    HexPrefix
    \o (IF Type # REG_BINARY
        THEN <<HexTypeSpecOpening>> \o HexOf(Type) \o <<HexTypeSpecClosing>>
        ELSE <<>>)
    \o <<ValueTypeAndDataSeparator>>

RenderBinaryValue(FirstLineSizeSoFar, RegValue) ==
    LET prefix == BinaryPrefix(RegValue.Type)
    IN  [Result |-> "S_OK",
         Text |-> RenderBinaryLoop(RegValue.BinaryValue, 1,
                                   FirstLineSizeSoFar + Len(prefix), prefix) \o NewLines]

\* RenderDwordValue writing the bytes in the order of the memory
RenderDwordValueInMemoryOrder(FirstLineSizeSoFar, RegValue) ==
    IF RegValue.Type # REG_DWORD THEN [Result |-> "E_INVALIDARG", Text |-> <<>>]
    ELSE IF Len(RegValue.BinaryValue) # 4 THEN RenderBinaryValue(FirstLineSizeSoFar, RegValue)
    ELSE [Result |-> "S_OK",
          Text |-> DwordPrefix \o <<ValueTypeAndDataSeparator>>
                   \o HexOfLittleEndian([i \in 1..4 |-> RegValue.BinaryValue[5 - i]])
                   \o NewLines]

RenderDwordValue(FirstLineSizeSoFar, RegValue) ==
    IF RegValue.Type # REG_DWORD THEN [Result |-> "E_INVALIDARG", Text |-> <<>>]
    ELSE IF Len(RegValue.BinaryValue) # 4 THEN RenderBinaryValue(FirstLineSizeSoFar, RegValue)
    ELSE [Result |-> "S_OK",
          Text |-> DwordPrefix \o <<ValueTypeAndDataSeparator>>
                   \o HexOfLittleEndian(RegValue.BinaryValue) \o NewLines]

\* RenderQwordValue writing the bytes in the order of the memory
RenderQwordValueInMemoryOrder(FirstLineSizeSoFar, RegValue) ==
    IF RegValue.Type # REG_QWORD THEN [Result |-> "E_INVALIDARG", Text |-> <<>>]
    ELSE IF Len(RegValue.BinaryValue) # 8 THEN RenderBinaryValue(FirstLineSizeSoFar, RegValue)
    ELSE [Result |-> "S_OK",
          Text |-> QwordPrefix \o <<ValueTypeAndDataSeparator>>
                   \o HexOfLittleEndian([i \in 1..8 |-> RegValue.BinaryValue[9 - i]])
                   \o NewLines]

RenderQwordValue(FirstLineSizeSoFar, RegValue) ==
    IF RegValue.Type # REG_QWORD THEN [Result |-> "E_INVALIDARG", Text |-> <<>>]
    ELSE IF Len(RegValue.BinaryValue) # 8 THEN RenderBinaryValue(FirstLineSizeSoFar, RegValue)
    ELSE [Result |-> "S_OK",
          Text |-> QwordPrefix \o <<ValueTypeAndDataSeparator>>
                   \o HexOfLittleEndian(RegValue.BinaryValue) \o NewLines]

\* the substitutions without the one of the new lines
EscapeQuotedKeepingNewLines(str) ==
    GlobalStringSubstitute(GlobalStringSubstitute(str, <<92>>, <<92, 92>>), <<34>>, <<92, 34>>)

\* the three substitutions applied to value names and REG_SZ strings
EscapeQuoted(str) ==
    GlobalStringSubstitute(
        GlobalStringSubstitute(
            GlobalStringSubstitute(str, <<92>>, <<92, 92>>),
            <<34>>, <<92, 34>>),
        <<10>>, <<13, 10>>)

\* std::count(begin, end - 1, L'\0') != 0
HasInnerNull(WstringValue) == \E i \in 1..(Len(WstringValue) - 1) : WstringValue[i] = 0

RenderStringValue(FirstLineSizeSoFar, RegValue) ==
    IF RegValue.Type # REG_SZ THEN [Result |-> "E_INVALIDARG", Text |-> <<>>]
    ELSE IF Len(RegValue.BinaryValue) % 2 # 0 THEN RenderBinaryValue(FirstLineSizeSoFar, RegValue)
    ELSE LET WstringValue == ToWstring(RegValue.BinaryValue) IN
         IF WstringValue = <<>>
         THEN RenderBinaryValue(FirstLineSizeSoFar, RegValue)
         ELSE IF WstringValue[Len(WstringValue)] # 0 \/ HasInnerNull(WstringValue)
         THEN RenderBinaryValue(FirstLineSizeSoFar, RegValue)
         ELSE [Result |-> "S_OK",
               Text |-> <<34>>
                        \o EscapeQuoted(SubSeq(WstringValue, 1, Len(WstringValue) - 1))
                        \o <<34>> \o NewLines]

\* the first index from k on of a code unit the inner loop of
\* RenderMultiSzValue does not copy as it is (the null, a new line, the
\* escape, the delimiter); Len(W) + 1 if none
NextNotCopied(W, k) ==
    LET found == {i \in k..Len(W) : W[i] \in {0, 10, StringDelimiterEscape, StringDelimiter}}
    IN  IF found = {} THEN Len(W) + 1 ELSE CHOOSE i \in found : \A j \in found : i <= j

\* the inner while loop of RenderMultiSzValue: one string up to its null.
\* Gives the stream and the index of the first code unit left in Remainder.
\* The iterations that copy a code unit as it is are taken together.
RECURSIVE RenderMultiSzString(_, _, _)
RenderMultiSzString(W, k, Stream) ==
    IF k > Len(W) THEN [Stream |-> Stream, Next |-> k]
    ELSE IF NextNotCopied(W, k) > k
    THEN RenderMultiSzString(W, NextNotCopied(W, k),
                             Stream \o SubSeq(W, k, NextNotCopied(W, k) - 1))
    ELSE IF W[k] = 0 THEN [Stream |-> Append(Stream, 34), Next |-> k + 1]
    ELSE IF W[k] = 10 THEN RenderMultiSzString(W, k + 1, Stream \o <<13, W[k]>>)
    ELSE RenderMultiSzString(W, k + 1, Stream \o <<StringDelimiterEscape, W[k]>>)

\* the outer while loop of RenderMultiSzValue.  Written is what was already
\* handed to the file, Stream the contents of StringRenditionStream.
RECURSIVE RenderMultiSzLoop(_, _, _, _, _, _)
RenderMultiSzLoop(W, k, FirstLineSizeSoFar, CurLineSizeSoFar, Written, Stream) ==
    IF k > Len(W) THEN Written \o Stream
    ELSE LET one == RenderMultiSzString(W, k, Append(Stream, 34)) IN
         IF one.Next > Len(W)
         THEN Written \o one.Stream \o NewLines
         ELSE LET withSep == Append(one.Stream, MultiSzSeparator)
                  cur == CurLineSizeSoFar + Len(withSep)
              IN  IF cur > MultiSzWrappingLimit - 2
                  THEN RenderMultiSzLoop(W, one.Next, FirstLineSizeSoFar, FirstLineSizeSoFar,
                                         Written \o withSep \o EscapedNewLine,
                                         Spaces(FirstLineSizeSoFar))
                  ELSE RenderMultiSzLoop(W, one.Next, FirstLineSizeSoFar, cur, Written, withSep)

RenderMultiSzValue(FirstLineSizeSoFar, TypeSpecifier, RegValue) ==
    IF Len(RegValue.BinaryValue) % 2 # 0 THEN RenderBinaryValue(FirstLineSizeSoFar, RegValue)
    ELSE LET WstringValue == ToWstring(RegValue.BinaryValue) IN
         IF WstringValue = <<>>
         THEN RenderBinaryValue(FirstLineSizeSoFar, RegValue)
         ELSE IF WstringValue[Len(WstringValue)] # 0
         THEN RenderBinaryValue(FirstLineSizeSoFar, RegValue)
         ELSE [Result |-> "S_OK",
               Text |-> RenderMultiSzLoop(WstringValue, 1, FirstLineSizeSoFar, FirstLineSizeSoFar,
                            <<>>, TypeSpecifier \o <<ValueTypeAndDataSeparator>>)]

\* the name part of a value line: @= or "escaped name"=
RenderValueName(Name) ==
    LET EscapedName == EscapeQuoted(Name) IN
    IF EscapedName = <<>> THEN DefaultValue \o <<ValueNameSeparator>>
    ELSE <<34>> \o EscapedName \o <<34, 61>>

\* the dispatch with the extensions always enabled
RenderValueDataWithExtensions(FirstLineSizeSoFar, RegValue, EnableExtensions) ==
    IF RegValue.Type = REG_DWORD THEN RenderDwordValue(FirstLineSizeSoFar, RegValue)
    ELSE IF RegValue.Type = REG_SZ THEN RenderStringValue(FirstLineSizeSoFar, RegValue)
    ELSE IF RegValue.Type = REG_QWORD THEN RenderQwordValue(FirstLineSizeSoFar, RegValue)
    ELSE IF RegValue.Type = REG_MULTI_SZ
         THEN RenderMultiSzValue(FirstLineSizeSoFar, MultiSzPrefix, RegValue)
    ELSE IF RegValue.Type = REG_EXPAND_SZ
         THEN RenderMultiSzValue(FirstLineSizeSoFar, ExpandSzPrefix, RegValue)
    ELSE RenderBinaryValue(FirstLineSizeSoFar, RegValue)

\* the dispatch at the end of RenderRegistryValue
RenderValueData(FirstLineSizeSoFar, RegValue, EnableExtensions) ==
    IF RegValue.Type = REG_DWORD THEN RenderDwordValue(FirstLineSizeSoFar, RegValue)
    ELSE IF RegValue.Type = REG_SZ THEN RenderStringValue(FirstLineSizeSoFar, RegValue)
    ELSE IF RegValue.Type = REG_QWORD /\ EnableExtensions
         THEN RenderQwordValue(FirstLineSizeSoFar, RegValue)
    ELSE IF RegValue.Type = REG_MULTI_SZ /\ EnableExtensions
         THEN RenderMultiSzValue(FirstLineSizeSoFar, MultiSzPrefix, RegValue)
    ELSE IF RegValue.Type = REG_EXPAND_SZ /\ EnableExtensions
         THEN RenderMultiSzValue(FirstLineSizeSoFar, ExpandSzPrefix, RegValue)
    ELSE RenderBinaryValue(FirstLineSizeSoFar, RegValue)

RenderRegistryValue(RegValue, EnableExtensions) ==
    LET Str == RenderValueName(RegValue.Name)
        data == RenderValueData(Len(Str), RegValue, EnableExtensions)
    IN  [Result |-> data.Result, Text |-> Str \o data.Text]

\* two writes in a row: the second happens if the first succeeded
InSequence(first, second) ==
    IF FAILED(first.Result) THEN first
    ELSE [Result |-> second.Result, Text |-> first.Text \o second.Text]

\* a write of text that succeeds
Written(Text) == [Result |-> "S_OK", Text |-> Text]

\* the loop over RegKey.Values up to its n-th value: stops at the first failure
RECURSIVE RenderValues(_, _, _)
RenderValues(Values, n, EnableExtensions) ==
    IF n = 0 THEN Written(<<>>)
    ELSE InSequence(RenderValues(Values, n - 1, EnableExtensions),
                    RenderRegistryValue(Values[n], EnableExtensions))

\* NewPath and KeySpec of RenderRegistryKeyToRegFormat
NewPathOf(RegKey, PathSoFar) ==
    IF PathSoFar = <<>> THEN RegKey.Name ELSE PathSoFar \o <<PathSeparator>> \o RegKey.Name

\* KeySpecOf without the substitution of the new lines in the path
KeySpecOfWithoutSubstitution(NewPath) ==
    <<KeyOpening>> \o NewPath \o <<KeyClosing>> \o NewLines

KeySpecOf(NewPath) ==
    <<KeyOpening>> \o GlobalStringSubstitute(NewPath, <<10>>, <<13, 10>>)
      \o <<KeyClosing>> \o NewLines

RECURSIVE RenderRegistryKeyToRegFormat(_, _, _)
\* the loop over RegKey.Subkeys up to its n-th sub-key: stops at the first failure
RECURSIVE RenderSubkeys(_, _, _, _)
RenderSubkeys(Subkeys, n, NewPath, EnableExtensions) ==
    IF n = 0 THEN Written(<<>>)
    ELSE InSequence(RenderSubkeys(Subkeys, n - 1, NewPath, EnableExtensions),
                    RenderRegistryKeyToRegFormat(Subkeys[n], NewPath, EnableExtensions))

\* RenderRegistryKeyToRegFormat once NewPath is made: the header line, the
\* values, the blank line, the sub-keys
RenderKeyAt(RegKey, NewPath, EnableExtensions) ==
    InSequence(
        InSequence(
            InSequence(Written(KeySpecOf(NewPath)),
                       RenderValues(RegKey.Values, Len(RegKey.Values), EnableExtensions)),
            Written(NewLines)),
        RenderSubkeys(RegKey.Subkeys, Len(RegKey.Subkeys), NewPath, EnableExtensions))

RenderRegistryKeyToRegFormat(RegKey, PathSoFar, EnableExtensions) ==
    RenderKeyAt(RegKey, NewPathOf(RegKey, PathSoFar), EnableExtensions)

\* InternalToRegfile with CreateFileW and the writes succeeding: Text is the
\* contents of the output file
InternalToRegfile(RegKey, EnableExtensions) ==
    InSequence(Written(Preamble), RenderRegistryKeyToRegFormat(RegKey, <<>>, EnableExtensions))


(***************************************************************************)
(* RegfileToInternal.cpp: parsing.  Every reader gives a record with the   *)
(* HRESULT it returns (Result), the index of the first code unit left in   *)
(* the view (ReadHead) and what it read.                                   *)
(***************************************************************************)
IsXDigit(c) == (48 <= c /\ c <= 57) \/ (65 <= c /\ c <= 70) \/ (97 <= c /\ c <= 102)

\* the value of one hexadecimal digit
XDigitValue(c) == IF c <= 57 THEN c - 48 ELSE IF c <= 70 THEN c - 55 ELSE c - 87

IsSpace(c) == (9 <= c /\ c <= 13) \/ c = 32

ToLower(c) == IF 65 <= c /\ c <= 90 THEN c + 32 ELSE c

\* std::wistringstream >> std::hex >> n on a run of hexadecimal digits: the number read
RECURSIVE HexToNumber(_)
HexToNumber(digits) ==
    IF digits = <<>> THEN 0
    ELSE 16 * HexToNumber(SubSeq(digits, 1, Len(digits) - 1)) + XDigitValue(digits[Len(digits)])

\* ValueRendering: the way a value line says its data is written
ValueRendering == {"Unknown", "Hexadecimal", "String", "Dword", "Qword", "MultiSz", "ExpandSz"}

\* the while loop of ReadNameOfRegistryValue; k is the index of ReadHead[ClosingQuotePos]
RECURSIVE ReadNameLoop(_, _, _)
ReadNameLoop(s, k, ValueNameStream) ==
    IF k > Len(s) THEN [Result |-> "E_UNEXPECTED", ReadHead |-> k, Name |-> <<>>]
    ELSE IF s[k] = StringDelimiter
         THEN [Result |-> "S_OK", ReadHead |-> k + 1, Name |-> ValueNameStream]
    ELSE IF k + 1 > Len(s) THEN [Result |-> "E_UNEXPECTED", ReadHead |-> k, Name |-> <<>>]
    ELSE IF s[k] = StringDelimiterEscape
         THEN ReadNameLoop(s, k + 2, Append(ValueNameStream, s[k + 1]))
    ELSE IF s[k] = 13 /\ s[k + 1] = 10 THEN ReadNameLoop(s, k + 1, ValueNameStream)
    ELSE ReadNameLoop(s, k + 1, Append(ValueNameStream, s[k]))

ReadNameOfRegistryValue(s, p) ==
    IF StartsWithAt(s, p, DefaultValue)
    THEN [Result |-> "S_OK", ReadHead |-> p + Len(DefaultValue), Name |-> <<>>]
    ELSE IF CharAt(s, p, StringDelimiter) THEN ReadNameLoop(s, p + 1, <<>>)
    ELSE [Result |-> "E_UNEXPECTED", ReadHead |-> p, Name |-> <<>>]

\* ReadHead.find_first_not_of(L"0123456789abcdefABCDEF"): index of the first
\* code unit at or after k that is no hexadecimal digit, 0 for npos
RECURSIVE FindFirstNotXDigit(_, _)
FindFirstNotXDigit(s, k) ==
    IF k > Len(s) THEN 0 ELSE IF IsXDigit(s[k]) THEN FindFirstNotXDigit(s, k + 1) ELSE k

\* type tags of the model stay below 16^7, inside the integers of TLC
ReadOptionalBinaryValueType(s, p, Mode) ==
    IF p > Len(s) THEN [Result |-> "E_UNEXPECTED", ReadHead |-> p, ValueType |-> 0]
    ELSE IF CharAt(s, p, HexTypeSpecOpening)
    THEN LET ClosingParenPos == FindFirstNotXDigit(s, p + 1) IN
         IF ClosingParenPos = 0 \/ ClosingParenPos = p + 1
            \/ s[ClosingParenPos] # HexTypeSpecClosing
         THEN [Result |-> "E_UNEXPECTED", ReadHead |-> p + 1, ValueType |-> 0]
         ELSE [Result |-> "S_OK", ReadHead |-> ClosingParenPos + 1,
               ValueType |-> HexToNumber(SubSeq(s, p + 1, ClosingParenPos - 1))]
    ELSE IF Mode = "Unknown" THEN [Result |-> "E_UNEXPECTED", ReadHead |-> p, ValueType |-> 0]
    ELSE [Result |-> "S_OK", ReadHead |-> p,
          ValueType |-> CASE Mode = "Dword" -> REG_DWORD
                          [] Mode = "Qword" -> REG_QWORD
                          [] Mode = "MultiSz" -> REG_MULTI_SZ
                          [] Mode = "ExpandSz" -> REG_EXPAND_SZ
                          [] Mode = "String" -> REG_SZ
                          [] OTHER -> REG_BINARY]

\* NumberReadingStream >> std::hex >> NumericValue on the 2 * sizeof(T) code
\* units of ReadValue: white space is skipped, then an optional sign, an
\* optional 0x, and the longest run of hexadecimal digits; without a digit the
\* extraction fails and stores zero.  The number is given as its 2 * sizeof(T)
\* hexadecimal digit values, most significant first.
RECURSIVE SkipSpaces(_, _)
SkipSpaces(str, i) ==
    IF i <= Len(str) /\ IsSpace(str[i]) THEN SkipSpaces(str, i + 1) ELSE i

RECURSIVE DigitRun(_, _)
DigitRun(str, i) ==
    IF i <= Len(str) /\ IsXDigit(str[i])
    THEN <<XDigitValue(str[i])>> \o DigitRun(str, i + 1) ELSE <<>>

\* 0 - n modulo 16^Len(n), the way strtoull negates an unsigned number
RECURSIVE NegateNibbles(_)
NegateNibbles(n) ==
    IF n = <<>> THEN <<>>
    ELSE LET last == n[Len(n)]
             front == SubSeq(n, 1, Len(n) - 1)
         IN  IF last = 0 THEN Append(NegateNibbles(front), 0)
             ELSE Append([i \in 1..Len(front) |-> 15 - front[i]], 16 - last)

\* the optional sign of the number
IsNegative(ReadValue, i) == i <= Len(ReadValue) /\ ReadValue[i] = 45
SignEnd(ReadValue, i) == IF i <= Len(ReadValue) /\ ReadValue[i] \in {43, 45} THEN i + 1 ELSE i

\* the optional 0x or 0X of the number
PrefixEnd(ReadValue, i) ==
    IF i + 1 <= Len(ReadValue) /\ ReadValue[i] = 48 /\ ReadValue[i + 1] \in {88, 120}
    THEN i + 2 ELSE i

PadNibbles(run, Width) == [i \in 1..(Width - Len(run)) |-> 0] \o run

\* the extraction once white space is skipped
StreamReadHexFrom(ReadValue, Width, i) ==
    IF IsNegative(ReadValue, i)
    THEN NegateNibbles(
             PadNibbles(DigitRun(ReadValue, PrefixEnd(ReadValue, SignEnd(ReadValue, i))), Width))
    ELSE PadNibbles(DigitRun(ReadValue, PrefixEnd(ReadValue, SignEnd(ReadValue, i))), Width)

StreamReadHex(ReadValue, Width) == StreamReadHexFrom(ReadValue, Width, SkipSpaces(ReadValue, 1))

\* CopyMemory(BinaryValue.data(), &NumericValue, sizeof(T)): least significant byte first
NibblesToBytes(n) ==
    [i \in 1..(Len(n) \div 2) |-> 16 * n[Len(n) - 2 * i + 1] + n[Len(n) - 2 * i + 2]]

\* _wcsnicmp(a, b, n) == 0 for two strings of n code units, a without a null
EqualNoCase(a, b) == Len(a) = Len(b) /\ \A i \in 1..Len(a) : ToLower(a[i]) = ToLower(b[i])

\* VerificationStream << std::hex << std::setw(...) << std::setfill(L'0') << NumericValue
VerificationString(NumericValue) == [i \in 1..Len(NumericValue) |-> HexDigit(NumericValue[i])]

\* CheckIntegralValue without the comparison with the verification string
CheckIntegralValueWithoutComparison(s, q, ReadValue, NumericValue) ==
    IF ~StartsWithAt(s, q, NewLines)
    THEN [Result |-> "E_UNEXPECTED", ReadHead |-> q,
          BinaryValue |-> NibblesToBytes(NumericValue)]
    ELSE [Result |-> "S_OK", ReadHead |-> q + Len(NewLines),
          BinaryValue |-> NibblesToBytes(NumericValue)]

\* ReadIntegralValue<T> from the comparison on: q is the index after the digits
CheckIntegralValue(s, q, ReadValue, NumericValue) ==
    IF ~EqualNoCase(VerificationString(NumericValue), ReadValue)
    THEN [Result |-> "E_UNEXPECTED", ReadHead |-> q - Len(ReadValue), BinaryValue |-> <<>>]
    ELSE IF ~StartsWithAt(s, q, NewLines)
    THEN [Result |-> "E_UNEXPECTED", ReadHead |-> q,
          BinaryValue |-> NibblesToBytes(NumericValue)]
    ELSE [Result |-> "S_OK", ReadHead |-> q + Len(NewLines),
          BinaryValue |-> NibblesToBytes(NumericValue)]

\* ReadIntegralValue<T>, Size = sizeof(T); 2 * Size is HEXADECIMAL_REPRESENTATION_LENGTH
ReadIntegralValue(s, p, Size) ==
    IF Len(s) + 1 - p <= 2 * Size
    THEN [Result |-> "E_UNEXPECTED", ReadHead |-> p, BinaryValue |-> <<>>]
    ELSE CheckIntegralValue(s, p + 2 * Size, SubSeq(s, p, p + 2 * Size - 1),
                            StreamReadHex(SubSeq(s, p, p + 2 * Size - 1), 2 * Size))

\* only the two spaces the renderer writes are passed over
SkipTwoLeadingSpaces(s, p) ==
    IF CharAt(s, p, LeadingSpace) /\ CharAt(s, p + 1, LeadingSpace) THEN p + 2 ELSE p

RECURSIVE SkipLeadingSpaces(_, _)
SkipLeadingSpaces(s, p) ==
    IF CharAt(s, p, LeadingSpace) THEN SkipLeadingSpaces(s, p + 1) ELSE p

\* a byte and its separator at index q: two hexadecimal digits and a comma
HexByteAndSeparatorAt(s, q) ==
    /\ q + 2 <= Len(s)
    /\ IsXDigit(s[q])
    /\ IsXDigit(s[q + 1])
    /\ s[q + 2] = HexByteSeparator

\* how many bytes with their separators follow one another from index p on
HexByteRun(s, p) ==
    LET broken == {t \in 0..((Len(s) + 1 - p) \div 3) : ~HexByteAndSeparatorAt(s, p + 3 * t)}
    IN  CHOOSE t \in broken : \A u \in broken : t <= u

\* the read head after the iterations that follow a run ending at index q
\* with an escaped new line: the new line and the leading spaces consumed
AfterHexByteRun(s, q) ==
    IF StartsWithAt(s, q, EscapedNewLine)
    THEN SkipLeadingSpaces(s, q + Len(EscapedNewLine)) ELSE q

\* the while loop of ReadHexadecimalData.  The iterations over a run of
\* bytes that each have their separator (a byte, then its separator), and
\* the one over the escaped new line that follows the run, are taken
\* together; anything else is read one iteration at a time.
RECURSIVE ReadHexadecimalLoop(_, _, _)
ReadHexadecimalLoop(s, p, BinaryValue) ==
    IF p > Len(s) THEN [Result |-> "E_UNEXPECTED", ReadHead |-> p, BinaryValue |-> BinaryValue]
    ELSE IF HexByteRun(s, p) > 0
         THEN ReadHexadecimalLoop(s, AfterHexByteRun(s, p + 3 * HexByteRun(s, p)),
                  BinaryValue \o [t \in 1..HexByteRun(s, p) |->
                                     HexToNumber(<<s[p + 3 * t - 3], s[p + 3 * t - 2]>>) % 256])
    ELSE IF StartsWithAt(s, p, NewLines)
         THEN [Result |-> "S_OK", ReadHead |-> p + Len(NewLines), BinaryValue |-> BinaryValue]
    ELSE IF CharAt(s, p, HexByteSeparator) THEN ReadHexadecimalLoop(s, p + 1, BinaryValue)
    ELSE IF StartsWithAt(s, p, EscapedNewLine)
         THEN ReadHexadecimalLoop(s, SkipLeadingSpaces(s, p + Len(EscapedNewLine)), BinaryValue)
    ELSE IF p + 1 <= Len(s) /\ IsXDigit(s[p]) /\ IsXDigit(s[p + 1])
         THEN ReadHexadecimalLoop(s, p + 2,
                  Append(BinaryValue, HexToNumber(<<s[p], s[p + 1]>>) % 256))
    ELSE [Result |-> "E_UNEXPECTED", ReadHead |-> p, BinaryValue |-> BinaryValue]

ReadHexadecimalData(s, p) == ReadHexadecimalLoop(s, p, <<>>)

\* the while loop of ReadString; k is the index of ReadHead[ClosingQuotePos]
RECURSIVE ReadStringLoop(_, _, _)
\* the first index from k on of a code unit the loop of ReadString does not
\* just append (the delimiter, the escape, a carriage return); Len(s) + 1 if none
NextNotAppended(s, k) ==
    LET found == {i \in k..Len(s) : s[i] \in {StringDelimiter, StringDelimiterEscape, 13}}
    IN  IF found = {} THEN Len(s) + 1 ELSE CHOOSE i \in found : \A j \in found : i <= j

\* ReadStringAt keeping the carriage return of a line break
ReadStringAtKeepingCarriageReturns(s, k, ValueString) ==
    IF k > Len(s) THEN [Result |-> "E_UNEXPECTED", ReadHead |-> k, Str |-> <<>>]
    ELSE IF s[k] = StringDelimiter
         THEN [Result |-> "S_OK", ReadHead |-> k + 1, Str |-> ValueString]
    ELSE IF k + 1 > Len(s) THEN [Result |-> "E_UNEXPECTED", ReadHead |-> k, Str |-> <<>>]
    ELSE IF s[k] = StringDelimiterEscape
         THEN ReadStringLoop(s, k + 2, Append(ValueString, s[k + 1]))
    ELSE ReadStringLoop(s, k + 1, Append(ValueString, s[k]))

\* one iteration of the loop at a delimiter, an escape or a carriage return
\* (or at the end of the input)
ReadStringAt(s, k, ValueString) ==
    IF k > Len(s) THEN [Result |-> "E_UNEXPECTED", ReadHead |-> k, Str |-> <<>>]
    ELSE IF s[k] = StringDelimiter
         THEN [Result |-> "S_OK", ReadHead |-> k + 1, Str |-> ValueString]
    ELSE IF k + 1 > Len(s) THEN [Result |-> "E_UNEXPECTED", ReadHead |-> k, Str |-> <<>>]
    ELSE IF s[k] = StringDelimiterEscape
         THEN ReadStringLoop(s, k + 2, Append(ValueString, s[k + 1]))
    ELSE IF s[k] = 13 /\ s[k + 1] = 10 THEN ReadStringLoop(s, k + 1, ValueString)
    ELSE ReadStringLoop(s, k + 1, Append(ValueString, s[k]))

\* the loop of ReadString from index k.  The iterations that only append a
\* code unit are taken together: the code units before the next delimiter,
\* escape or carriage return are appended at once.  When none comes before
\* the end of the input, the loop fails at the last code unit.
ReadStringLoop(s, k, ValueString) ==
    IF k > Len(s) \/ NextNotAppended(s, k) = k THEN ReadStringAt(s, k, ValueString)
    ELSE IF NextNotAppended(s, k) > Len(s)
    THEN [Result |-> "E_UNEXPECTED", ReadHead |-> Len(s), Str |-> <<>>]
    ELSE ReadStringAt(s, NextNotAppended(s, k),
                      ValueString \o SubSeq(s, k, NextNotAppended(s, k) - 1))

\* ReadString: BinaryValue comes in and, on success, goes out with the bytes
\* of the string and of its L'\0' added (after a clear unless AppendOutput)
ReadString(s, p, BinaryValue, AppendOutput) ==
    IF ~CharAt(s, p, StringDelimiter)
    THEN [Result |-> "E_UNEXPECTED", ReadHead |-> p, BinaryValue |-> BinaryValue]
    ELSE LET r == ReadStringLoop(s, p + 1, <<>>) IN
         IF FAILED(r.Result)
         THEN [Result |-> r.Result, ReadHead |-> p + 1, BinaryValue |-> BinaryValue]
         ELSE [Result |-> "S_OK", ReadHead |-> r.ReadHead,
               BinaryValue |-> (IF AppendOutput THEN BinaryValue ELSE <<>>)
                               \o ToBytes(Append(r.Str, 0))]

\* the inner loops of ReadMultiSzData: continuation markers after a separator
RECURSIVE SkipEscapedNewLines(_, _)
SkipEscapedNewLines(s, p) ==
    IF StartsWithAt(s, p, EscapedNewLine)
    THEN SkipEscapedNewLines(s, SkipLeadingSpaces(s, p + Len(EscapedNewLine)))
    ELSE p

\* the while (TRUE) loop of ReadMultiSzData
RECURSIVE ReadMultiSzLoop(_, _, _)
ReadMultiSzLoop(s, p, BinaryValue) ==
    IF StartsWithAt(s, p, NewLines)
    THEN [Result |-> "S_OK", ReadHead |-> p + Len(NewLines), BinaryValue |-> BinaryValue]
    ELSE LET q == IF CharAt(s, p, MultiSzSeparator) THEN SkipEscapedNewLines(s, p + 1) ELSE p
             r == ReadString(s, q, BinaryValue, TRUE)
         IN  IF FAILED(r.Result) THEN r ELSE ReadMultiSzLoop(s, r.ReadHead, r.BinaryValue)

ReadMultiSzData(s, p) ==
    LET r == ReadString(s, p, <<>>, FALSE) IN
    IF FAILED(r.Result) THEN r ELSE ReadMultiSzLoop(s, r.ReadHead, r.BinaryValue)


\* the prefix tests of ValueListToInternal, in the order of the code
DetectMode(s, p) ==
    IF StartsWithAt(s, p, DwordPrefix) THEN [Mode |-> "Dword", Length |-> Len(DwordPrefix)]
    ELSE IF StartsWithAt(s, p, QwordPrefix) THEN [Mode |-> "Qword", Length |-> Len(QwordPrefix)]
    ELSE IF StartsWithAt(s, p, HexPrefix) THEN [Mode |-> "Hexadecimal", Length |-> Len(HexPrefix)]
    ELSE IF StartsWithAt(s, p, MultiSzPrefix) THEN [Mode |-> "MultiSz", Length |-> Len(MultiSzPrefix)]
    ELSE IF StartsWithAt(s, p, ExpandSzPrefix) THEN [Mode |-> "ExpandSz", Length |-> Len(ExpandSzPrefix)]
    ELSE [Mode |-> "String", Length |-> 0]

\* the switch (Mode) of ValueListToInternal
ReadValueData(s, p, Mode) ==
    CASE Mode = "Dword" -> ReadIntegralValue(s, p, 4)
      [] Mode = "Qword" -> ReadIntegralValue(s, p, 8)
      [] Mode = "Hexadecimal" -> ReadHexadecimalData(s, p)
      [] Mode \in {"MultiSz", "ExpandSz"} -> ReadMultiSzData(s, p)
      [] OTHER -> ReadString(s, p, <<>>, FALSE)

\* One iteration of the loop of ValueListToInternal reads one value line in
\* steps; v holds the value so far, the read head, and the HRESULT of the
\* step that failed (every step after a failure leaves v alone: the code
\* has returned).
StartValue(name) ==
    [Result |-> name.Result, ReadHead |-> name.ReadHead, Name |-> name.Name,
     Mode |-> "Unknown", Type |-> REG_NONE, BinaryValue |-> <<>>]

\* ExpectAndConsumeAtReadHead(ReadHead, ValueNameSeparator)
ExpectValueNameSeparator(s, v) ==
    IF FAILED(v.Result) THEN v
    ELSE IF ~CharAt(s, v.ReadHead, ValueNameSeparator) THEN [v EXCEPT !.Result = "E_UNEXPECTED"]
    ELSE [v EXCEPT !.ReadHead = @ + 1]

WithMode(v, detected) == [v EXCEPT !.Mode = detected.Mode, !.ReadHead = @ + detected.Length]

ReadValueMode(s, v) == IF FAILED(v.Result) THEN v ELSE WithMode(v, DetectMode(s, v.ReadHead))

\* the type read, then ExpectAndConsumeAtReadHead(ReadHead, ValueTypeAndDataSeparator)
WithType(s, v, type) ==
    IF FAILED(type.Result) THEN [v EXCEPT !.Result = type.Result]
    ELSE IF ~CharAt(s, type.ReadHead, ValueTypeAndDataSeparator)
    THEN [v EXCEPT !.Result = "E_UNEXPECTED", !.ReadHead = type.ReadHead]
    ELSE [v EXCEPT !.Type = type.ValueType, !.ReadHead = type.ReadHead + 1]

ReadValueType(s, v) ==
    IF FAILED(v.Result) THEN v
    ELSE IF v.Mode = "String" THEN [v EXCEPT !.Type = REG_SZ]
    ELSE WithType(s, v, ReadOptionalBinaryValueType(s, v.ReadHead, v.Mode))

\* the data read, then the line break a string must be followed by
WithData(s, v, data) ==
    IF FAILED(data.Result) THEN [v EXCEPT !.Result = data.Result]
    ELSE IF v.Mode # "String"
    THEN [v EXCEPT !.BinaryValue = data.BinaryValue, !.ReadHead = data.ReadHead]
    ELSE IF ~StartsWithAt(s, data.ReadHead, NewLines)
    THEN [v EXCEPT !.Result = "E_UNEXPECTED", !.ReadHead = data.ReadHead]
    ELSE [v EXCEPT !.BinaryValue = data.BinaryValue, !.ReadHead = data.ReadHead + Len(NewLines)]

ReadValueBytes(s, v) ==
    IF FAILED(v.Result) THEN v ELSE WithData(s, v, ReadValueData(s, v.ReadHead, v.Mode))

\* the body of the loop of ValueListToInternal from RegistryValue Value on
ReadRegistryValue(s, p) ==
    ReadValueBytes(s,
        ReadValueType(s,
            ReadValueMode(s,
                ExpectValueNameSeparator(s, StartValue(ReadNameOfRegistryValue(s, p))))))

\* skipping the further line breaks after the one that ends a value list
RECURSIVE SkipNewLines(_, _)
SkipNewLines(s, p) ==
    IF StartsWithAt(s, p, NewLines) THEN SkipNewLines(s, p + Len(NewLines)) ELSE p

RECURSIVE ValueListLoop(_, _, _)
\* Values.emplace_back(std::move(Value)) and the next iteration, or the return of a failure
ValueListEmplace(s, v, Values) ==
    IF FAILED(v.Result)
    THEN [Result |-> v.Result, ReadHead |-> v.ReadHead, Values |-> Values]
    ELSE ValueListLoop(s, v.ReadHead,
             Append(Values, [Name |-> v.Name, Type |-> v.Type, BinaryValue |-> v.BinaryValue]))

\* ValueListLoop taking the next key header for the end of the list
ValueListLoopEndingAtHeader(s, p, Values) ==
    IF p > Len(s) \/ CharAt(s, p, KeyOpening)
    THEN [Result |-> "S_OK", ReadHead |-> p, Values |-> Values]
    ELSE IF StartsWithAt(s, p, NewLines)
    THEN [Result |-> "S_OK", ReadHead |-> SkipNewLines(s, p + Len(NewLines)), Values |-> Values]
    ELSE ValueListEmplace(s, ReadRegistryValue(s, p), Values)

\* the do ... while (TRUE) loop of ValueListToInternal
ValueListLoop(s, p, Values) ==
    IF p > Len(s) THEN [Result |-> "S_OK", ReadHead |-> p, Values |-> Values]
    ELSE IF StartsWithAt(s, p, NewLines)
    THEN [Result |-> "S_OK", ReadHead |-> SkipNewLines(s, p + Len(NewLines)), Values |-> Values]
    ELSE ValueListEmplace(s, ReadRegistryValue(s, p), Values)

ValueListToInternal(s, p) == ValueListLoop(s, p, <<>>)

\* the closing bracket without the new line
KeyClosingAnywhere == <<KeyClosing>>

\* KeyClosingAtEOL of RegListToInternal
KeyClosingAtEOL == <<KeyClosing>> \o NewLines

\* while (RegList.length() >= 2 && RegList[0] == L'\r' && RegList[1] == L'\n') RegList.remove_prefix(2)
RECURSIVE RemoveLineBreaks(_, _)
RemoveLineBreaks(s, p) ==
    IF StartsWithAt(s, p, <<13, 10>>) THEN RemoveLineBreaks(s, p + 2) ELSE p

\* the loop at the end of an iteration of RegListToInternal, which removes one code unit
RECURSIVE RemoveLineBreakHeads(_, _)
RemoveLineBreakHeads(s, p) ==
    IF StartsWithAt(s, p, <<13, 10>>) THEN RemoveLineBreakHeads(s, p + 1) ELSE p

\* KeyPath.length() <= PathPrefix.length() || !std::equal(PathPrefix, KeyPath): the break test
NotASubKey(KeyPath, PathPrefix) ==
    \/ Len(KeyPath) <= Len(PathPrefix)
    \/ ~StartsWithAt(KeyPath, 1, PathPrefix)

\* KeyNameOf keeping the whole path as the name
KeyNameOfWholePath(KeyPath, PathPrefix) ==
    GlobalStringSubstitute(KeyPath, <<13, 10>>, <<10>>)

\* KeyNameOf without the substitution
KeyNameOfKeepingCarriageReturns(KeyPath, PathPrefix) ==
    SubSeq(KeyPath, Len(PathPrefix) + 1, Len(KeyPath))

\* NewKey.Name: the rest of KeyPath after PathPrefix, with \r\n turned into \n
KeyNameOf(KeyPath, PathPrefix) ==
    GlobalStringSubstitute(SubSeq(KeyPath, Len(PathPrefix) + 1, Len(KeyPath)), <<13, 10>>, <<10>>)

RECURSIVE RegListToInternal(_, _, _, _)
RECURSIVE RegListLoop(_, _, _, _)

\* RegKeys.emplace_back(std::move(NewKey)), the line breaks, while (!RegList.empty())
RegListEmplace(s, PathPrefix, RegKeys, NewKey, q) ==
    IF q <= Len(s) THEN RegListLoop(s, q, PathPrefix, Append(RegKeys, NewKey))
    ELSE [Result |-> "S_OK", ReadHead |-> q, RegKeys |-> Append(RegKeys, NewKey)]

\* after the recursive call for the sub-keys of the new key
RegListAfterSubkeys(s, KeyPath, PathPrefix, RegKeys, Values, subkeys) ==
    IF FAILED(subkeys.Result)
    THEN [Result |-> subkeys.Result, ReadHead |-> subkeys.ReadHead, RegKeys |-> RegKeys]
    ELSE RegListEmplace(s, PathPrefix, RegKeys,
             [Name |-> KeyNameOf(KeyPath, PathPrefix), Values |-> Values,
              Subkeys |-> subkeys.RegKeys],
             RemoveLineBreakHeads(s, subkeys.ReadHead))

\* after ValueListToInternal(RegList, NewKey.Values): the sub-keys, if anything is left
RegListAfterValues(s, KeyPath, PathPrefix, RegKeys, values) ==
    IF FAILED(values.Result)
    THEN [Result |-> values.Result, ReadHead |-> values.ReadHead, RegKeys |-> RegKeys]
    ELSE RegListAfterSubkeys(s, KeyPath, PathPrefix, RegKeys, values.Values,
             IF values.ReadHead <= Len(s)
             THEN RegListToInternal(s, values.ReadHead, Append(KeyPath, PathSeparator), <<>>)
             ELSE [Result |-> "S_OK", ReadHead |-> values.ReadHead, RegKeys |-> <<>>])

\* the header line once its closing bracket was looked for
RegListAtHeader(s, p, EndKeyPos, PathPrefix, RegKeys) ==
    IF EndKeyPos = 0 THEN [Result |-> "E_UNEXPECTED", ReadHead |-> p, RegKeys |-> RegKeys]
    ELSE IF NotASubKey(SubSeq(s, p + 1, EndKeyPos - 1), PathPrefix)
    THEN [Result |-> "S_OK", ReadHead |-> p, RegKeys |-> RegKeys]
    ELSE RegListAfterValues(s, SubSeq(s, p + 1, EndKeyPos - 1), PathPrefix, RegKeys,
             ValueListToInternal(s, EndKeyPos + 1 + Len(NewLines)))

\* the do ... while (!RegList.empty()) loop of RegListToInternal
RegListLoop(s, p, PathPrefix, RegKeys) ==
    IF s[p] # KeyOpening THEN [Result |-> "E_UNEXPECTED", ReadHead |-> p, RegKeys |-> RegKeys]
    ELSE RegListAtHeader(s, p, Find(s, KeyClosingAtEOL, p + 1), PathPrefix, RegKeys)

\* RegListToInternal once the leading line breaks are removed
RegListStart(s, q, PathPrefix, RegKeys) ==
    IF q > Len(s) THEN [Result |-> "E_UNEXPECTED", ReadHead |-> q, RegKeys |-> RegKeys]
    ELSE RegListLoop(s, q, PathPrefix, RegKeys)

RegListToInternal(s, p, PathPrefix, RegKeys) ==
    RegListStart(s, RemoveLineBreaks(s, p), PathPrefix, RegKeys)

\* the registry key a default-constructed RegistryKey holds
EmptyKey == [Name |-> <<>>, Values |-> <<>>, Subkeys |-> <<>>]

\* CheckKeysInFile handing over the first key before the checks
CheckKeysInFileSwappingFirst(FileContents, RegKey, list) ==
    IF FAILED(list.Result) \/ list.RegKeys = <<>>
    THEN [Result |-> IF FAILED(list.Result) THEN list.Result ELSE "E_UNEXPECTED",
          RegKey |-> RegKey, KeysInFile |-> list.RegKeys,
          Unparsed |-> Len(FileContents) + 1 - list.ReadHead]
    ELSE IF Len(list.RegKeys) # 1 \/ Len(FileContents) + 1 - list.ReadHead # 0
    THEN [Result |-> "E_UNEXPECTED", RegKey |-> list.RegKeys[1],
          KeysInFile |-> <<RegKey>> \o Tail(list.RegKeys),
          Unparsed |-> Len(FileContents) + 1 - list.ReadHead]
    ELSE [Result |-> "S_OK", RegKey |-> list.RegKeys[1], KeysInFile |-> <<RegKey>>,
          Unparsed |-> 0]

\* CheckKeysInFile without the check of the number of keys
CheckKeysInFileOfAnyNumber(FileContents, RegKey, list) ==
    IF FAILED(list.Result) \/ list.RegKeys = <<>>
    THEN [Result |-> IF FAILED(list.Result) THEN list.Result ELSE "E_UNEXPECTED",
          RegKey |-> RegKey, KeysInFile |-> list.RegKeys,
          Unparsed |-> Len(FileContents) + 1 - list.ReadHead]
    ELSE IF Len(FileContents) + 1 - list.ReadHead # 0
    THEN [Result |-> "E_UNEXPECTED", RegKey |-> RegKey, KeysInFile |-> list.RegKeys,
          Unparsed |-> Len(FileContents) + 1 - list.ReadHead]
    ELSE [Result |-> "S_OK", RegKey |-> list.RegKeys[1],
          KeysInFile |-> <<RegKey>> \o Tail(list.RegKeys), Unparsed |-> 0]

\* RegfileToInternal after RegListToInternal: the two checks and the swap.
\* RegKey is the caller's output tree as it is on entry; Unparsed is
\* ReadHead.length() and KeysInFile the local vector at the return.
CheckKeysInFile(FileContents, RegKey, list) ==
    IF FAILED(list.Result)
    THEN [Result |-> list.Result, RegKey |-> RegKey, KeysInFile |-> list.RegKeys,
          Unparsed |-> Len(FileContents) + 1 - list.ReadHead]
    ELSE IF Len(list.RegKeys) # 1
    THEN [Result |-> "E_UNEXPECTED", RegKey |-> RegKey, KeysInFile |-> list.RegKeys,
          Unparsed |-> Len(FileContents) + 1 - list.ReadHead]
    ELSE IF Len(FileContents) + 1 - list.ReadHead # 0
    THEN [Result |-> "E_UNEXPECTED", RegKey |-> RegKey, KeysInFile |-> list.RegKeys,
          Unparsed |-> Len(FileContents) + 1 - list.ReadHead]
    ELSE [Result |-> "S_OK", RegKey |-> list.RegKeys[1], KeysInFile |-> <<RegKey>>,
          Unparsed |-> 0]

\* ParseFileContents looking for the first key header instead of the preamble
ParseFileContentsFromFirstHeader(FileContents, RegKey) ==
    IF Find(FileContents, <<KeyOpening>>, 1) = 0
    THEN [Result |-> "E_UNEXPECTED", RegKey |-> RegKey, KeysInFile |-> <<>>,
          Unparsed |-> Len(FileContents)]
    ELSE CheckKeysInFile(FileContents, RegKey,
             RegListToInternal(FileContents, Find(FileContents, <<KeyOpening>>, 1), <<>>, <<>>))

\* RegfileToInternal once ReadFileToWString has given FileContents
ParseFileContents(FileContents, RegKey) ==
    IF ~StartsWithAt(FileContents, 1, Preamble)
    THEN [Result |-> "E_UNEXPECTED", RegKey |-> RegKey, KeysInFile |-> <<>>,
          Unparsed |-> Len(FileContents)]
    ELSE CheckKeysInFile(FileContents, RegKey,
             RegListToInternal(FileContents, Len(Preamble) + 1, <<>>, <<>>))

\* RegfileToInternal; ReadResult is what ReadFileToWString returns
RegfileToInternal(ReadResult, FileContents, RegKey) ==
    IF FAILED(ReadResult)
    THEN [Result |-> ReadResult, RegKey |-> RegKey, KeysInFile |-> <<>>, Unparsed |-> 0]
    ELSE ParseFileContents(FileContents, RegKey)


(***************************************************************************)
(* State.  A file is the sequence of the UTF-16 code units it holds:       *)
(* WriteStringBufferToFile and ReadFileToWString copy the memory of a      *)
(* std::wstring to and from the file unchanged.                            *)
(***************************************************************************)
VARIABLES
    pc,                \* where the run is
    Result,            \* the HRESULT of the last conversion
    RegKey,            \* the registry tree held in memory (the caller's tree)
    EnableExtensions,  \* the flag given to InternalToRegfile
    FileContents,      \* the code units of the .reg file
    Original,          \* the tree the run started with
    FirstContents,     \* what the file first held: the first rendering, or the preamble typed
    Headers,           \* the key blocks an edited file was made of, in order
    Source,            \* who made the file: "blocks" or "written"
    KeysInFile,        \* the top-level keys RegListToInternal collected
    Unparsed,          \* ReadHead.length() when RegfileToInternal returned
    Argc,              \* wmain: the number of command-line parameters, program name included
    ArgIndex,          \* wmain: the index of the next argument (0 is the program name)
    InputFormat,       \* wmain: the SupportedFormat given after --from
    OutputFormat,      \* wmain: the SupportedFormat given after --to
    InputFile,         \* wmain: the input file path
    OutputFile,        \* wmain: the output file path
    NtSetValueKey,     \* InternalToHive.cpp: whether the function pointer is loaded
    ReadDone,          \* the input was read whole into the tree
    WriteDone,         \* the tree was written whole to the output
    HkeyCall,          \* InternalToHive: what the registry API did and InternalToHkey returned
    ExitStatus,        \* the exit status of the process, "running" before it exits
    Value,             \* the RegistryValue handed to RenderRegistryValue on its own
    Line,              \* the code units of one value line, rendered or typed
    Parsed,            \* what ValueListToInternal made of the line
    Rendering,         \* the line as RenderRegistryValue wrote it
    Markers,           \* how many continuation markers were put into the line since
    NestedCalls,       \* the calls of RegListToInternal under way, the outermost first
    Reader             \* the loop of the parser under way, its read head and its locals

\* the state of wmain, which the conversions called on their own leave alone
mainVars == <<Argc, ArgIndex, InputFormat, OutputFormat, InputFile, OutputFile,
              NtSetValueKey, ReadDone, WriteDone, HkeyCall, ExitStatus>>

\* the state of a run on one value line
valueVars == <<Value, Line, Parsed, Rendering, Markers>>

\* the state of a file read one loop iteration at a time
stepVars == <<NestedCalls, Reader>>

vars == <<pc, Result, RegKey, EnableExtensions, FileContents, Original, FirstContents,
          Headers, Source, KeysInFile, Unparsed, mainVars, valueVars, stepVars>>

\* InternalToHive has not called InternalToHkey
NoHkeyCall == [Made |-> FALSE]

\* wmain was not entered
NoInvocation ==
    /\ Argc = 0
    /\ ArgIndex = 0
    /\ InputFormat = "Unknown"
    /\ OutputFormat = "Unknown"
    /\ InputFile = ""
    /\ OutputFile = ""
    /\ NtSetValueKey = FALSE
    /\ ReadDone = FALSE
    /\ WriteDone = FALSE
    /\ HkeyCall = NoHkeyCall
    /\ ExitStatus = "running"

\* a RegistryValue as it is default-constructed, and no line read yet
NoValue == [Name |-> <<>>, Type |-> 0, BinaryValue |-> <<>>]
NotParsed == [Result |-> "E_FAIL", ReadHead |-> 1, Values |-> <<>>]

\* no value line is being worked on
NoValueLine ==
    /\ Value = NoValue
    /\ Line = <<>>
    /\ Parsed = NotParsed
    /\ Rendering = <<>>
    /\ Markers = 0

\* the locals of the loops of the parser before any of them is entered
NoReader ==
    [At |-> "None", ReadHead |-> 1, ClosingQuotePos |-> 0, Stream |-> <<>>,
     Value |-> NoValue, Caller |-> "None", Then |-> "None", Result |-> "E_FAIL",
     RegKeys |-> <<>>, Returned |-> FALSE, Iterations |-> 0]

\* no file is being read one iteration at a time
NoSteps ==
    /\ NestedCalls = <<>>
    /\ Reader = NoReader

(***************************************************************************)
(* Bounds of the trees a round trip starts with                            *)
(***************************************************************************)
MaxKeyNameLen == 3
MaxValueNameLen == 2
MaxStringLen == 3
MaxBinaryLen == 4
MaxDepth == 2
MaxValues == 2

SeqsUpTo(S, n) == UNION {[1..k -> S] : k \in 0..n}

\* key names: a, closing and opening bracket, line feed, carriage return
KeyNameChars == {97, 93, 91, 10, 13}
KeyNames == SeqsUpTo(KeyNameChars, MaxKeyNameLen)

Leaf(Name) == [Name |-> Name, Values |-> <<>>, Subkeys |-> <<>>]

RootName == <<82>>

\* one key with any name, alone or under a root
NameTrees ==
    {Leaf(n) : n \in KeyNames}
      \cup {[Name |-> RootName, Values |-> <<>>, Subkeys |-> <<Leaf(n)>>] : n \in KeyNames}

\* a string value "x" for the keys named b, none for the keys named a
StructNames == {<<97>>, <<98>>}
StructValues(Name) ==
    IF Name = <<98>>
    THEN <<[Name |-> <<>>, Type |-> REG_SZ, BinaryValue |-> ToBytes(<<120, 0>>)]>>
    ELSE <<>>

RECURSIVE SubkeyLists(_)
SubkeyLists(d) ==
    IF d = 0 THEN {<<>>}
    ELSE LET K == {[Name |-> n, Values |-> StructValues(n), Subkeys |-> sub] :
                      n \in StructNames, sub \in SubkeyLists(d - 1)}
         IN  {<<>>} \cup {<<k>> : k \in K}
               \cup {<<p[1], p[2]>> : p \in {q \in K \X K : q[1].Name # q[2].Name}}

StructTrees ==
    {[Name |-> RootName, Values |-> <<>>, Subkeys |-> sub] : sub \in SubkeyLists(MaxDepth)}

\* value names: a, double quote, backslash, line feed, carriage return
ValueNameChars == {97, 34, 92, 10, 13}
ValueNames == SeqsUpTo(ValueNameChars, MaxValueNameLen)

\* string data: null, A, double quote, backslash, line feed, carriage return
StringUnits == {0, 65, 34, 92, 10, 13}
StringData ==
    {ToBytes(w) : w \in SeqsUpTo(StringUnits, MaxStringLen)}
      \cup {Append(ToBytes(w), 65) : w \in SeqsUpTo(StringUnits, 1)}
StringTypes == {REG_SZ, REG_EXPAND_SZ, REG_MULTI_SZ, REG_BINARY}

BinaryBytes == {0, 26, 255}
BinaryData ==
    LET short == SeqsUpTo(BinaryBytes, MaxBinaryLen)
    IN  short \cup {d \o d : d \in {x \in short : Len(x) = 4}}
BinaryTypes == {REG_NONE, REG_SZ, REG_BINARY, REG_DWORD, REG_QWORD, 300}

\* data long enough for the renderers to wrap lines
LongBinaryData == {[i \in 1..n |-> (7 * i) % 256] : n \in {24, 25, 26, 50, 51}}
LongStringData ==
    {ToBytes([i \in 1..n |-> 0]) : n \in 4..8}
      \cup {ToBytes([i \in 1..(2 * n) |-> IF i % 2 = 1 THEN 65 ELSE 0]) : n \in 3..6}
      \cup {ToBytes([i \in 1..n |-> IF i = n THEN 0 ELSE 65]) : n \in {75, 76, 77}}

TypedData ==
    (StringTypes \X StringData) \cup (BinaryTypes \X BinaryData)
      \cup ({REG_NONE, REG_BINARY} \X LongBinaryData)
      \cup ({REG_SZ, REG_EXPAND_SZ, REG_MULTI_SZ} \X LongStringData)

\* one value of any type and data, unnamed or named a
SingleValues ==
    {[Name |-> n, Type |-> td[1], BinaryValue |-> td[2]] :
        n \in {<<>>, <<97>>}, td \in TypedData}

\* one string or dword value of any name
NamedValues ==
    {[Name |-> n, Type |-> td[1], BinaryValue |-> td[2]] :
        n \in ValueNames,
        td \in {<<REG_SZ, ToBytes(<<120, 0>>)>>, <<REG_DWORD, <<42, 0, 0, 0>>>>}}

\* lists of values with different names
CoreValues ==
    {[Name |-> n, Type |-> td[1], BinaryValue |-> td[2]] :
        n \in {<<>>, <<97>>, <<98>>},
        td \in {<<REG_SZ, ToBytes(<<120, 0>>)>>, <<REG_DWORD, <<42, 0, 0, 0>>>>,
                <<REG_BINARY, <<1>>>>, <<REG_MULTI_SZ, ToBytes(<<97, 0, 98, 0, 0>>)>>}}

RECURSIVE ValueLists(_)
ValueLists(n) ==
    IF n = 0 THEN {<<>>}
    ELSE LET shorter == ValueLists(n - 1) IN
         shorter \cup {Append(l, v) : l \in {x \in shorter : Len(x) = n - 1},
                                      v \in CoreValues}

DistinctNames(Values) ==
    \A i, j \in 1..Len(Values) : Values[i].Name = Values[j].Name => i = j

ValueTrees ==
    {[Name |-> RootName, Values |-> <<v>>, Subkeys |-> <<>>] : v \in SingleValues \cup NamedValues}
      \cup {[Name |-> RootName, Values |-> l, Subkeys |-> <<>>] :
               l \in {x \in ValueLists(MaxValues) : DistinctNames(x)}}

\* a key whose name holds a new line, with a value and a sub-key, as the root
\* or under a root before a sibling
NewlineNames == {n \in KeyNames : \E i \in 1..Len(n) : n[i] = 10}
NewlineKey(Name, SubName) ==
    [Name |-> Name,
     Values |-> <<[Name |-> <<97>>, Type |-> REG_DWORD, BinaryValue |-> <<42, 0, 0, 0>>]>>,
     Subkeys |-> <<Leaf(SubName)>>]
NewlineTrees ==
    {NewlineKey(n, <<97>>) : n \in NewlineNames}
      \cup {[Name |-> RootName, Values |-> <<>>,
             Subkeys |-> <<NewlineKey(n, sub), Leaf(<<98>>)>>] :
                n \in NewlineNames, sub \in {<<97>>, <<10>>}}

\* names that hold a closing bracket and a new line before text of a .reg
\* file: a blank line and an opening bracket, a value line; the last one holds
\* a path separator
BracketNames ==
    {<<97, 93, 10, 10>>, <<97, 93, 10, 10, 91, 97>>, <<97, 93, 10, 10, 91, 82>>,
     <<82, 93, 10, 10, 91, 82>>, <<97, 93, 10, 64, 61, 34, 34, 10>>,
     <<97, 93, 10, 64, 61, 34>>, <<97, 93, 10, 10, 91, 97, 92, 98>>}
BracketTrees ==
    {Leaf(n) : n \in BracketNames}
      \cup {[Name |-> RootName, Values |-> <<>>, Subkeys |-> <<Leaf(n)>>] : n \in BracketNames}
      \cup {NewlineKey(n, <<97>>) : n \in BracketNames}

Trees == NameTrees \cup StructTrees \cup ValueTrees \cup NewlineTrees \cup BracketTrees

(***************************************************************************)
(* Spec: a tree is written to a .reg file, the file is read back, and the  *)
(* tree read is written again.                                             *)
(***************************************************************************)
Init ==
    /\ pc = "start"
    /\ RegKey \in Trees
    /\ EnableExtensions \in BOOLEAN
    /\ Original = RegKey
    /\ Result = "S_OK"
    /\ FileContents = <<>>
    /\ FirstContents = <<>>
    /\ Headers = <<>>
    /\ Source = "written"
    /\ KeysInFile = <<>>
    /\ Unparsed = 0
    /\ NoInvocation
    /\ NoValueLine
    /\ NoSteps

\* InternalToRegfile(RegKey, OutputFilePath, EnableExtensions)
WriteRegfile ==
    /\ pc = "start"
    /\ LET w == InternalToRegfile(RegKey, EnableExtensions) IN
       /\ Result' = w.Result
       /\ FileContents' = w.Text
       /\ FirstContents' = w.Text
    /\ pc' = "written"
    /\ UNCHANGED <<RegKey, EnableExtensions, Original, Headers, Source, KeysInFile, Unparsed,
                   mainVars, valueVars, stepVars>>

\* RegfileToInternal(RegFilePath, RegKey) into a fresh tree
ReadRegfile ==
    /\ pc = "written"
    /\ SUCCEEDED(Result)
    /\ LET r == RegfileToInternal("S_OK", FileContents, EmptyKey) IN
       /\ Result' = r.Result
       /\ RegKey' = r.RegKey
       /\ KeysInFile' = r.KeysInFile
       /\ Unparsed' = r.Unparsed
    /\ pc' = "read"
    /\ UNCHANGED <<EnableExtensions, FileContents, Original, FirstContents, Headers, Source,
                   mainVars, valueVars, stepVars>>

\* InternalToRegfile of the tree that was read, with the same flag
RewriteRegfile ==
    /\ pc = "read"
    /\ SUCCEEDED(Result)
    /\ LET w == InternalToRegfile(RegKey, EnableExtensions) IN
       /\ Result' = w.Result
       /\ FileContents' = w.Text
    /\ pc' = "rewritten"
    /\ UNCHANGED <<RegKey, EnableExtensions, Original, FirstContents, Headers, Source,
                   KeysInFile, Unparsed,
                   mainVars, valueVars, stepVars>>

Next == WriteRegfile \/ ReadRegfile \/ RewriteRegfile

Spec == Init /\ [][Next]_vars


(***************************************************************************)
(* Round trip (C1, C2) and idempotence (C3)                                *)
(***************************************************************************)
RECURSIVE AllKeysOf(_)
\* the keys of a tree: the key itself and the keys of its sub-keys
AllKeysOf(Key) ==
    {Key} \cup UNION {AllKeysOf(Key.Subkeys[i]) : i \in 1..Len(Key.Subkeys)}

\* README.md, limitations and requirements: a key name that is empty, or that
\* holds a closing bracket followed by a newline character, cannot be read back
ReadableKeyName(Name) ==
    /\ Name # <<>>
    /\ Find(Name, <<KeyClosing, 10>>, 1) = 0

ReadableKeyNames(Key) == \A k \in AllKeysOf(Key) : ReadableKeyName(k.Name)

HasValueOfType(Key, Type) ==
    \E k \in AllKeysOf(Key) : \E i \in 1..Len(k.Values) : k.Values[i].Type = Type

\* C1 as stated: for every tree, writing without extensions and reading back
\* succeeds and returns the same tree.
C1_RoundTripAnyTree ==
    (pc = "read" /\ ~EnableExtensions) => (Result = "S_OK" /\ RegKey = Original)

\* C1, amended: for every tree whose key names are non-empty and hold no
\* closing bracket followed by a newline, writing without extensions and
\* reading back succeeds and returns the same tree: same names, same order of
\* sub-keys and values, same name, type and data bytes for every value.
C1_RoundTrip ==
    (pc = "read" /\ ~EnableExtensions /\ ReadableKeyNames(Original))
        => (Result = "S_OK" /\ RegKey = Original)

\* a tree with sub-keys two levels deep and a value came back unchanged
C1_Witness ==
    /\ pc = "read"
    /\ ~EnableExtensions
    /\ Result = "S_OK"
    /\ RegKey = Original
    /\ \E i \in 1..Len(Original.Subkeys) :
          /\ Original.Subkeys[i].Subkeys # <<>>
          /\ Original.Subkeys[i].Values # <<>>

\* C2 as stated: for every tree, writing with extensions and reading back
\* returns the same tree.
C2_RoundTripAnyTreeWithExtensions ==
    (pc = "read" /\ EnableExtensions) => (Result = "S_OK" /\ RegKey = Original)

\* C2, amended: for every tree whose key names are non-empty and hold no
\* closing bracket followed by a newline, writing with extensions (qword:,
\* multi_sz:, expand_sz: tokens, wrapped lines included) and reading back
\* succeeds and returns the same tree; every value gets back its bytes and type.
C2_RoundTripWithExtensions ==
    (pc = "read" /\ EnableExtensions /\ ReadableKeyNames(Original))
        => (Result = "S_OK" /\ RegKey = Original)

\* a multi-string value of empty strings, written as multi_sz: on wrapped
\* lines, came back with its bytes and type
C2_Witness ==
    /\ pc = "read"
    /\ EnableExtensions
    /\ Result = "S_OK"
    /\ RegKey = Original
    /\ Len(Original.Values) = 1
    /\ Original.Values[1].Type = REG_MULTI_SZ
    /\ Original.Values[1].BinaryValue = ToBytes(<<0, 0, 0, 0, 0, 0, 0, 0>>)
    /\ Find(FileContents, MultiSzPrefix, 1) # 0
    /\ Find(FileContents, <<MultiSzSeparator>> \o EscapedNewLine, 1) # 0

MaxBlocks == 4

RootPath == <<82, 111, 111, 116>>
OtherPath == <<79, 116, 104, 101, 114>>
PathA == RootPath \o <<PathSeparator, 65>>
PathB == RootPath \o <<PathSeparator, 66>>
PathAB == PathA \o <<PathSeparator, 66>>
PathAC == PathA \o <<PathSeparator, 67>>

\* the paths a key header of an edited file can hold; <<>> is the header []
HeaderPaths == {RootPath, PathA, PathAB, PathAC, PathB, OtherPath, <<>>}

\* "v"=dword:0000002a
GoodValueLine == <<34, 118, 34, 61, 100, 119, 111, 114, 100, 58, 48, 48, 48, 48, 48, 48, 50, 97>> \o NewLines
GoodValue == [Name |-> <<118>>, Type |-> REG_DWORD, BinaryValue |-> <<42, 0, 0, 0>>]

\* v=dword:0000002a, a name without its quotes
BadNameLine == <<118, 61, 100, 119, 111, 114, 100, 58, 48, 48, 48, 48, 48, 48, 50, 97>> \o NewLines

\* "v"=dword:0000002g, a digit that is none
BadDataLine == <<34, 118, 34, 61, 100, 119, 111, 114, 100, 58, 48, 48, 48, 48, 48, 48, 50, 103>> \o NewLines

\* what follows the header line of a block:
\*   empty    no value, then the blank line
\*   value    one value, then the blank line
\*   noblank  one value and no blank line after it
\*   badname, baddata  one malformed value line, then the blank line
BlockKinds == {"empty", "value", "noblank", "badname", "baddata"}

BlockText(Path, Kind) ==
    <<KeyOpening>> \o Path \o <<KeyClosing>> \o NewLines
      \o CASE Kind = "empty" -> NewLines
           [] Kind = "value" -> GoodValueLine \o NewLines
           [] Kind = "noblank" -> GoodValueLine
           [] Kind = "badname" -> BadNameLine \o NewLines
           [] Kind = "baddata" -> BadDataLine \o NewLines

\* the preamble as it should be; without its byte-order mark; without its
\* blank line; an older format's first line; nothing
PreambleVariants ==
    {Preamble, Tail(Preamble), SubSeq(Preamble, 1, Len(Preamble) - Len(NewLines)),
     <<82, 69, 71, 69, 68, 73, 84, 52>> \o NewLines \o NewLines, <<>>}

\* the tree the caller holds before the call
StaleKey == Leaf(<<83>>)

\* the trees an exported file is written from
ExportTrees == {t \in StructTrees : Len(t.Subkeys) <= 1}

\* an edited file departs from a well-formed file of empty keys in one place at most
Varied ==
    \/ ~StartsWithAt(FileContents, 1, Preamble)
    \/ \E i \in 1..Len(Headers) : Headers[i].Kind # "empty"

InitParse ==
    /\ pc = "edit"
    /\ FileContents \in PreambleVariants
    /\ FirstContents = FileContents
    /\ Headers = <<>>
    /\ Source = "blocks"
    /\ RegKey = StaleKey
    /\ Original = StaleKey
    /\ EnableExtensions = FALSE
    /\ Result = "S_OK"
    /\ KeysInFile = <<>>
    /\ Unparsed = 0
    /\ NoInvocation
    /\ NoValueLine
    /\ NoSteps

\* one more key block at the end of the file
AppendBlock(Path, Kind) ==
    /\ pc = "edit"
    /\ Source = "blocks"
    /\ Len(Headers) < MaxBlocks
    /\ \A i \in 1..Len(Headers) : Headers[i].Path # Path
    /\ Kind = "empty" \/ ~Varied
    /\ FileContents' = FileContents \o BlockText(Path, Kind)
    /\ Headers' = Append(Headers, [Path |-> Path, Kind |-> Kind])
    /\ UNCHANGED <<pc, Result, RegKey, EnableExtensions, Original, FirstContents, Source,
                   KeysInFile, Unparsed,
                   mainVars, valueVars, stepVars>>

\* InternalToRegfile(Tree, OutputFilePath, Extensions) creates the file anew
ExportRegfile(Tree, Extensions) ==
    /\ pc = "edit"
    /\ Source = "blocks"
    /\ Headers = <<>>
    /\ LET w == InternalToRegfile(Tree, Extensions) IN
       /\ FileContents' = w.Text
       /\ FirstContents' = w.Text
    /\ EnableExtensions' = Extensions
    /\ Source' = "written"
    /\ UNCHANGED <<pc, Result, RegKey, Original, Headers, KeysInFile, Unparsed,
                   mainVars, valueVars, stepVars>>

\* RegfileToInternal(RegFilePath, RegKey) on the file as it is
ParseRegfile ==
    /\ pc = "edit"
    /\ LET r == RegfileToInternal("S_OK", FileContents, RegKey) IN
       /\ Result' = r.Result
       /\ RegKey' = r.RegKey
       /\ KeysInFile' = r.KeysInFile
       /\ Unparsed' = r.Unparsed
    /\ pc' = "parsed"
    /\ UNCHANGED <<EnableExtensions, FileContents, Original, FirstContents, Headers, Source,
                   mainVars, valueVars, stepVars>>

NextParse ==
    \/ \E Path \in HeaderPaths, Kind \in BlockKinds : AppendBlock(Path, Kind)
    \/ \E Tree \in ExportTrees, Extensions \in BOOLEAN : ExportRegfile(Tree, Extensions)
    \/ ParseRegfile

SpecParse == InitParse /\ [][NextParse]_vars


(***************************************************************************)
(* What a file made of blocks says, read off the blocks (C5 to C10)        *)
(***************************************************************************)
RECURSIVE LastIndexOf(_, _, _)
\* the last index at or before i where Path holds c, 0 if there is none
LastIndexOf(Path, c, i) ==
    IF i = 0 THEN 0 ELSE IF Path[i] = c THEN i ELSE LastIndexOf(Path, c, i - 1)

HasSeparator(Path) == LastIndexOf(Path, PathSeparator, Len(Path)) # 0

\* the path without its last component, and that component
ParentPath(Path) == SubSeq(Path, 1, LastIndexOf(Path, PathSeparator, Len(Path)) - 1)
LastComponent(Path) == SubSeq(Path, LastIndexOf(Path, PathSeparator, Len(Path)) + 1, Len(Path))

\* Path is Ancestor, a separator, and something more
Descends(Path, Ancestor) ==
    /\ Len(Path) > Len(Ancestor) + 1
    /\ SubSeq(Path, 1, Len(Ancestor) + 1) = Append(Ancestor, PathSeparator)

\* the header paths are those of one tree written in pre-order: a root, and
\* after it every key right after its parent or after descendants of its parent
PreOrder ==
    /\ Headers # <<>>
    /\ Headers[1].Path # <<>>
    /\ ~HasSeparator(Headers[1].Path)
    /\ \A i \in 2..Len(Headers) :
          /\ HasSeparator(Headers[i].Path)
          /\ \E j \in 1..(i - 1) :
                /\ Headers[j].Path = ParentPath(Headers[i].Path)
                /\ \A k \in (j + 1)..(i - 1) : Descends(Headers[k].Path, Headers[j].Path)

\* a descendant of some key comes after a later key that is none
OutOfOrder ==
    \E i, j, k \in 1..Len(Headers) :
        /\ i < j
        /\ j < k
        /\ Descends(Headers[k].Path, Headers[i].Path)
        /\ ~Descends(Headers[j].Path, Headers[i].Path)

\* the indexes of the blocks whose key is a child of the key of block i, in order
ChildBlocks(i) ==
    SelectSeq([k \in 1..Len(Headers) |-> k],
              LAMBDA k : /\ k > i
                         /\ HasSeparator(Headers[k].Path)
                         /\ ParentPath(Headers[k].Path) = Headers[i].Path)

RECURSIVE TreeOfBlock(_)
\* the tree the blocks describe, from block i down
TreeOfBlock(i) ==
    [Name |-> LastComponent(Headers[i].Path),
     Values |-> IF Headers[i].Kind = "empty" THEN <<>> ELSE <<GoodValue>>,
     Subkeys |-> [n \in 1..Len(ChildBlocks(i)) |-> TreeOfBlock(ChildBlocks(i)[n])]]

ExactPreamble == FirstContents = Preamble

\* the file is made of blocks with an exact preamble and well-formed value lists
WellFormed ==
    /\ Source = "blocks"
    /\ ExactPreamble
    /\ \A i \in 1..Len(Headers) : Headers[i].Kind \in {"empty", "value"}

HeaderPathsAre(Paths) ==
    /\ Len(Headers) = Len(Paths)
    /\ \A i \in 1..Len(Paths) : Headers[i].Path = Paths[i]

\* C5: when a value line of the file is malformed, at any key and depth,
\* RegfileToInternal returns the reader's E_UNEXPECTED; and whenever it
\* returns a failure the caller's tree is the one it held before the call.
C5_NoPartialSuccess ==
    pc = "parsed" =>
        /\ (Source = "blocks" /\ \E i \in 1..Len(Headers) :
                                   Headers[i].Kind \in {"badname", "baddata"})
              => Result = "E_UNEXPECTED"
        /\ FAILED(Result) => RegKey = Original

\* a malformed value two levels below the root, after two keys were read
C5_Witness ==
    /\ pc = "parsed"
    /\ ExactPreamble
    /\ HeaderPathsAre(<<RootPath, PathA, PathAB>>)
    /\ Headers[3].Kind = "baddata"
    /\ Result = "E_UNEXPECTED"
    /\ RegKey = StaleKey

\* C6: when the headers of a well-formed file are a pre-order serialization,
\* the parse succeeds and gives the tree in which every key is a child of the
\* key its path extends by one component, children in document order;
\* [Root], [Root\A], [Root\A\B] give Root with the one child A, A with the one child B.
C6_NestedReconstruction ==
    (pc = "parsed" /\ WellFormed /\ PreOrder) =>
        /\ Result = "S_OK"
        /\ RegKey = TreeOfBlock(1)
        /\ HeaderPathsAre(<<RootPath, PathA, PathAB>>) /\ ~Varied
              => RegKey = [Name |-> RootPath, Values |-> <<>>,
                           Subkeys |-> <<[Name |-> <<65>>, Values |-> <<>>,
                                          Subkeys |-> <<Leaf(<<66>>)>>]>>]

\* Root with children A and B, B read after A's child: the collection of
\* A's children stopped at [Root\B]
C6_Witness ==
    /\ pc = "parsed"
    /\ WellFormed
    /\ HeaderPathsAre(<<RootPath, PathA, PathAB, PathB>>)
    /\ Result = "S_OK"
    /\ Len(RegKey.Subkeys) = 2
    /\ Len(RegKey.Subkeys[1].Subkeys) = 1
    /\ RegKey.Subkeys[2].Name = <<66>>

\* C7 as stated: a file in which a descendant of a key comes after a later
\* key that is no descendant of it is rejected.
C7_OutOfOrderRejected ==
    (pc = "parsed" /\ Source = "blocks" /\ OutOfOrder) => FAILED(Result)

\* C8: RegfileToInternal succeeds only with one top-level key and nothing
\* left unparsed; a first header with an empty name, and a header that does
\* not descend from the first one, each give a failure.
C8_SingleRootFullConsumption ==
    pc = "parsed" =>
        /\ Result = "S_OK" => (Len(KeysInFile) = 1 /\ Unparsed = 0)
        /\ (Source = "blocks" /\ Headers # <<>> /\ Headers[1].Path = <<>>)
              => (FAILED(Result) /\ KeysInFile = <<>>)
        /\ (Source = "blocks" /\ \E i \in 2..Len(Headers) :
                                   ~Descends(Headers[i].Path, Headers[1].Path))
              => FAILED(Result)

\* [Root] then [Other]: two top-level keys, all input read, a failure
C8_Witness ==
    /\ pc = "parsed"
    /\ WellFormed
    /\ HeaderPathsAre(<<RootPath, OtherPath>>)
    /\ Len(KeysInFile) = 2
    /\ Unparsed = 0
    /\ Result = "E_UNEXPECTED"

C10_Preamble ==
    /\ (pc = "parsed" /\ Source = "blocks" /\ ~ExactPreamble)
          => (Result = "E_UNEXPECTED" /\ KeysInFile = <<>> /\ RegKey = Original)
    /\ Source = "written"
          => /\ SubSeq(FileContents, 1, Len(Preamble)) = Preamble
             /\ Find(FileContents, <<KeyOpening>>, 1) = Len(Preamble) + 1

\* a file without the byte-order mark, otherwise well-formed, was rejected
C10_Witness ==
    /\ pc = "parsed"
    /\ FirstContents = Tail(Preamble)
    /\ HeaderPathsAre(<<RootPath>>)
    /\ Headers[1].Kind = "empty"
    /\ Result = "E_UNEXPECTED"


(***************************************************************************)
(* InternalToHive.cpp.  The registry API is the environment: the calls of  *)
(* NtSetValueKey and RegCreateKeyExW are counted in the order the code     *)
(* makes them, and Env says which call fails, if any, and how the load of  *)
(* ntdll.dll ends.  A state of the walk is                                 *)
(* [Result, NtSetValueKey, Calls, Failed, Goto].                           *)
(***************************************************************************)
USHRT_MAX == 65535

\* InternalToHive.cpp, 34 to 50 and 77 to 88: "S_OK" with the pointer set; a
\* failure code; or, when the last error was lost before it was returned,
\* S_OK with the pointer still null, which the caller turns into E_UNEXPECTED
LoadNtDllFunctions(LoadOutcome) ==
    IF LoadOutcome = "lost" THEN "E_UNEXPECTED" ELSE LoadOutcome

HkeyState(Result_, Loaded, Calls, Failed_, Goto) ==
    [Result |-> Result_, NtSetValueKey |-> Loaded, Calls |-> Calls,
     Failed |-> Failed_, Goto |-> Goto]

RECURSIVE SetValues(_, _, _, _)
\* lines 73 to 113: the loop over RegKey.Values, from value i on
SetValues(Values, i, st, Env) ==
    IF i > Len(Values) THEN st
    ELSE IF ~st.NtSetValueKey /\ FAILED(LoadNtDllFunctions(Env.LoadOutcome))
    THEN HkeyState(LoadNtDllFunctions(Env.LoadOutcome), FALSE, st.Calls, TRUE, "Cleanup")
    ELSE IF Len(Values[i].Name) >= USHRT_MAX \div 2
    THEN HkeyState("E_UNEXPECTED", TRUE, st.Calls, TRUE, "Cleanup")
    ELSE IF st.Calls + 1 = Env.FailCall
    \* NT_SUCCESS(Status) == FALSE: goto Cleanup, Result as it was
    THEN HkeyState(IF st.NtSetValueKey THEN st.Result ELSE "S_OK",
                   TRUE, st.Calls + 1, TRUE, "Cleanup")
    ELSE SetValues(Values, i + 1,
                   HkeyState(IF st.NtSetValueKey THEN st.Result ELSE "S_OK",
                             TRUE, st.Calls + 1, st.Failed, "loop"),
                   Env)

RECURSIVE InternalToHkey(_, _, _)
RECURSIVE CreateSubkeys(_, _, _, _)

\* lines 140 to 146: after the recursive call for sub-key i
AfterSubkey(Subkeys, i, st, Env) ==
    IF FAILED(st.Result) THEN st
    ELSE CreateSubkeys(Subkeys, i + 1, st, Env)

\* lines 115 to 147: the loop over RegKey.Subkeys, from sub-key i on
CreateSubkeys(Subkeys, i, st, Env) ==
    IF i > Len(Subkeys)
    THEN HkeyState("S_OK", st.NtSetValueKey, st.Calls, st.Failed, "Cleanup")
    ELSE IF st.Calls + 1 = Env.FailCall
    THEN HkeyState("E_ACCESSDENIED", st.NtSetValueKey, st.Calls + 1, TRUE, "Cleanup")
    ELSE AfterSubkey(Subkeys, i,
                     InternalToHkey(Subkeys[i],
                                    HkeyState(st.Result, st.NtSetValueKey, st.Calls + 1,
                                              st.Failed, "loop"),
                                    Env),
                     Env)

\* after the loop over the values: Cleanup, or the loop over the sub-keys
AfterValues(Key, st, Env) ==
    IF st.Goto = "Cleanup" THEN st ELSE CreateSubkeys(Key.Subkeys, 1, st, Env)

\* InternalToHkey(RegKey, KeyHandle); KeyHandle is the handle a successful
\* RegLoadAppKeyW or RegCreateKeyExW gave, never NULL
InternalToHkey(Key, st, Env) ==
    AfterValues(Key,
                SetValues(Key.Values, 1,
                          HkeyState("E_FAIL", st.NtSetValueKey, st.Calls, st.Failed, "loop"),
                          Env),
                Env)

\* lines 186 to 192: the result of InternalToHkey is reported, then replaced
RenderedToHive(st) ==
    [Result |-> "S_OK", NtSetValueKey |-> st.NtSetValueKey, Whole |-> ~st.Failed]

\* lines 186 to 192: the call of InternalToHkey InternalToHive makes once the
\* file is deleted and the hive loaded, with what the registry API did
HkeyCalled(Key, Loaded, Env) ==
    IF Env.Delete = "ERROR_ACCESS_DENIED" \/ FAILED(Env.RegLoadAppKey) THEN NoHkeyCall
    ELSE [Made |-> TRUE, Env |-> Env,
          Returned |-> InternalToHkey(Key, HkeyState("E_FAIL", Loaded, 0, FALSE, "loop"), Env)]

\* InternalToHive(RegKey, OutputFilePath)
InternalToHive(Key, Loaded, Env) ==
    IF Env.Delete = "ERROR_ACCESS_DENIED"
    THEN [Result |-> "E_ACCESSDENIED", NtSetValueKey |-> Loaded, Whole |-> FALSE]
    ELSE IF FAILED(Env.RegLoadAppKey)
    THEN [Result |-> Env.RegLoadAppKey, NtSetValueKey |-> Loaded, Whole |-> FALSE]
    ELSE RenderedToHive(InternalToHkey(Key, HkeyState("E_FAIL", Loaded, 0, FALSE, "loop"), Env))


(***************************************************************************)
(* HiveSwarming.cpp: wmain.  The command line is read one argument at a    *)
(* time, each drawn when the loop reaches it; the files and the registry   *)
(* API answer as the environment decides.                                  *)
(***************************************************************************)
MaxArgc == 7
MaxFailCall == 4

FromSwitch == "--from"
ToSwitch == "--to"
FormatHive == "hive"
FormatReg == "reg"
FormatRegWithHiveswarmingExtensions == "reg+"
FormatPol == "pol"
ExportKeyPath == <<40, 72, 105, 118, 101, 82, 111, 111, 116, 41>>

\* what an argument can be: a switch, a format name, a file path, nothing
Arguments ==
    {FromSwitch, ToSwitch, FormatHive, FormatReg, FormatRegWithHiveswarmingExtensions,
     FormatPol, "in", "out", ""}

ArgToFormat(Format) ==
    IF Format = FormatHive THEN "Hive"
    ELSE IF Format = FormatReg THEN "Reg"
    ELSE IF Format = FormatRegWithHiveswarmingExtensions THEN "RegWithHiveswarmingExtensions"
    ELSE IF Format = FormatPol THEN "Pol"
    ELSE "Unknown"

\* the trees the input files of wmain hold
MainTrees ==
    {Leaf(RootName),
     [Name |-> RootName, Values |-> <<GoodValue>>, Subkeys |-> <<>>],
     [Name |-> RootName, Values |-> <<GoodValue>>,
      Subkeys |-> <<[Name |-> <<65>>, Values |-> <<GoodValue>>, Subkeys |-> <<>>],
                    Leaf(<<66>>)>>],
     [Name |-> RootName, Values |-> <<>>,
      Subkeys |-> <<[Name |-> <<65>>, Values |-> <<GoodValue>>, Subkeys |-> <<>>]>>]}

\* what a .reg input file holds: a file InternalToRegfile wrote, the same
\* without its byte-order mark, or nothing
RegInputs ==
    {InternalToRegfile(t, FALSE).Text : t \in MainTrees}
        \cup {Tail(InternalToRegfile(t, FALSE).Text) : t \in MainTrees}
        \cup {<<>>}

\* what opening a file gives: CreateFileW fails on the empty path
OpenOutcomes(File) == IF File = "" THEN {"E_PATHNOTFOUND"} ELSE {"S_OK", "E_ACCESSDENIED"}

\* what the registry API can do during InternalToHive
HiveEnvs(File) ==
    [Delete : IF File = "" THEN {"ERROR_ACCESS_DENIED"}
              ELSE {"deleted", "ERROR_FILE_NOT_FOUND", "ERROR_ACCESS_DENIED"},
     RegLoadAppKey : {"S_OK", "E_ACCESSDENIED"},
     LoadOutcome : {"S_OK", "E_MOD_NOT_FOUND", "lost"},
     FailCall : 0..MaxFailCall]

InitMain ==
    /\ pc = "args"
    /\ Argc \in 1..MaxArgc
    /\ ArgIndex = 1
    /\ InputFormat = "Unknown"
    /\ OutputFormat = "Unknown"
    /\ InputFile = ""
    /\ OutputFile = ""
    /\ Result = "E_FAIL"
    /\ RegKey = EmptyKey
    /\ NtSetValueKey = FALSE
    /\ ReadDone = FALSE
    /\ WriteDone = FALSE
    /\ HkeyCall = NoHkeyCall
    /\ ExitStatus = "running"
    /\ EnableExtensions = FALSE
    /\ FileContents = <<>>
    /\ Original = EmptyKey
    /\ FirstContents = <<>>
    /\ Headers = <<>>
    /\ Source = "file"
    /\ KeysInFile = <<>>
    /\ Unparsed = 0
    /\ NoValueLine
    /\ NoSteps

\* what the argument loop and the exit leave alone
convVars == <<RegKey, EnableExtensions, FileContents, Original, FirstContents, Headers,
              Source, KeysInFile, Unparsed, NtSetValueKey, ReadDone, WriteDone, HkeyCall,
              valueVars, stepVars>>

\* where the loop goes after an iteration that left the index at Index
AfterArgument(Index) == IF Index < Argc THEN "args" ELSE "input"

\* lines 613 to 618: no argument, the usage is printed
NoArguments ==
    /\ pc = "args"
    /\ Argc <= 1
    /\ Result' = "S_OK"
    /\ pc' = "Cleanup"
    /\ UNCHANGED <<convVars, Argc, ArgIndex, InputFormat, OutputFormat, InputFile,
                   OutputFile, ExitStatus>>

\* lines 622 to 633: --from and the format after it
FromSwitchArgument(Format) ==
    /\ pc = "args"
    /\ Argc > 1
    /\ ArgIndex < Argc
    /\ IF ArgIndex + 1 >= Argc
       THEN /\ Result' = "E_INVALIDARG"
            /\ pc' = "Cleanup"
            /\ ArgIndex' = ArgIndex + 1
            /\ UNCHANGED InputFormat
       ELSE /\ InputFormat' = ArgToFormat(Format)
            /\ ArgIndex' = ArgIndex + 2
            /\ pc' = AfterArgument(ArgIndex + 2)
            /\ UNCHANGED Result
    /\ UNCHANGED <<convVars, Argc, OutputFormat, InputFile, OutputFile, ExitStatus>>

\* lines 634 to 645: --to and the format after it
ToSwitchArgument(Format) ==
    /\ pc = "args"
    /\ Argc > 1
    /\ ArgIndex < Argc
    /\ IF ArgIndex + 1 >= Argc
       THEN /\ Result' = "E_INVALIDARG"
            /\ pc' = "Cleanup"
            /\ ArgIndex' = ArgIndex + 1
            /\ UNCHANGED OutputFormat
       ELSE /\ OutputFormat' = ArgToFormat(Format)
            /\ ArgIndex' = ArgIndex + 2
            /\ pc' = AfterArgument(ArgIndex + 2)
            /\ UNCHANGED Result
    /\ UNCHANGED <<convVars, Argc, InputFormat, InputFile, OutputFile, ExitStatus>>

\* lines 646 to 651: the first argument that is no switch, while InputFile is empty
InputFileArgument(Arg) ==
    /\ pc = "args"
    /\ Argc > 1
    /\ ArgIndex < Argc
    /\ Arg \notin {FromSwitch, ToSwitch}
    /\ InputFile = ""
    /\ InputFile' = Arg
    /\ ArgIndex' = ArgIndex + 1
    /\ pc' = AfterArgument(ArgIndex + 1)
    /\ UNCHANGED <<convVars, Argc, Result, InputFormat, OutputFormat, OutputFile, ExitStatus>>

\* lines 652 to 657: the next one, while OutputFile is empty
OutputFileArgument(Arg) ==
    /\ pc = "args"
    /\ Argc > 1
    /\ ArgIndex < Argc
    /\ Arg \notin {FromSwitch, ToSwitch}
    /\ InputFile # ""
    /\ OutputFile = ""
    /\ OutputFile' = Arg
    /\ ArgIndex' = ArgIndex + 1
    /\ pc' = AfterArgument(ArgIndex + 1)
    /\ UNCHANGED <<convVars, Argc, Result, InputFormat, OutputFormat, InputFile, ExitStatus>>

\* lines 658 to 663: one argument too many
ExtraArgument(Arg) ==
    /\ pc = "args"
    /\ Argc > 1
    /\ ArgIndex < Argc
    /\ Arg \notin {FromSwitch, ToSwitch}
    /\ InputFile # ""
    /\ OutputFile # ""
    /\ Result' = "E_INVALIDARG"
    /\ pc' = "Cleanup"
    /\ UNCHANGED <<convVars, Argc, ArgIndex, InputFormat, OutputFormat, InputFile,
                   OutputFile, ExitStatus>>


\* what the read of the input leaves alone
readVars == <<Argc, ArgIndex, InputFormat, OutputFormat, InputFile, OutputFile,
              EnableExtensions, Original, FirstContents, Headers, Source,
              NtSetValueKey, WriteDone, HkeyCall, ExitStatus, valueVars, stepVars>>

\* the output is written whatever the read returned
AfterReadWithoutTest(hr) == "output"

\* lines 682 to 686: a failed read goes to Cleanup
AfterRead(hr) == IF FAILED(hr) THEN "Cleanup" ELSE "output"

\* HiveToInternal(InputFile, ExportKeyPath, InternalStruct): the hive holds
\* some tree, and the registry API lets it be read or not
ReadHive ==
    /\ pc = "input"
    /\ InputFormat = "Hive"
    /\ \E hr \in OpenOutcomes(InputFile), Tree \in MainTrees :
          /\ Result' = hr
          /\ RegKey' = IF SUCCEEDED(hr) THEN [Tree EXCEPT !.Name = ExportKeyPath] ELSE RegKey
          /\ ReadDone' = SUCCEEDED(hr)
          /\ pc' = AfterRead(hr)
    /\ UNCHANGED <<readVars, FileContents, KeysInFile, Unparsed>>

\* RegfileToInternal(InputFile, InternalStruct), for reg and reg+ alike
ReadReg ==
    /\ pc = "input"
    /\ InputFormat \in {"Reg", "RegWithHiveswarmingExtensions"}
    /\ \E ReadResult \in OpenOutcomes(InputFile), Contents \in RegInputs :
          LET r == RegfileToInternal(ReadResult, Contents, RegKey) IN
          /\ FileContents' = Contents
          /\ Result' = r.Result
          /\ RegKey' = r.RegKey
          /\ KeysInFile' = r.KeysInFile
          /\ Unparsed' = r.Unparsed
          /\ ReadDone' = SUCCEEDED(r.Result)
          /\ pc' = AfterRead(r.Result)
    /\ UNCHANGED readVars

\* PolfileToInternal(InputFile, ExportKeyPath, InternalStruct): the file
\* holds some tree, well-formed or not
ReadPol ==
    /\ pc = "input"
    /\ InputFormat = "Pol"
    /\ \E hr \in OpenOutcomes(InputFile) \cup {"E_UNEXPECTED"}, Tree \in MainTrees :
          /\ Result' = hr
          /\ RegKey' = IF SUCCEEDED(hr) THEN [Tree EXCEPT !.Name = ExportKeyPath] ELSE RegKey
          /\ ReadDone' = SUCCEEDED(hr)
          /\ pc' = AfterRead(hr)
    /\ UNCHANGED <<readVars, FileContents, KeysInFile, Unparsed>>

\* lines 678 to 680: no input format, or an unknown one
ReadUnknown ==
    /\ pc = "input"
    /\ InputFormat = "Unknown"
    /\ Result' = "E_UNEXPECTED"
    /\ pc' = "Cleanup"
    /\ UNCHANGED <<readVars, RegKey, FileContents, KeysInFile, Unparsed, ReadDone>>

\* what the write of the output leaves alone
writeVars == <<Argc, ArgIndex, InputFormat, OutputFormat, InputFile, OutputFile,
               RegKey, EnableExtensions, Original, FirstContents, Headers, Source,
               KeysInFile, Unparsed, ReadDone, ExitStatus, valueVars, stepVars>>

\* InternalToHive(InternalStruct, OutputFile)
WriteHive ==
    /\ pc = "output"
    /\ OutputFormat = "Hive"
    /\ \E Env \in HiveEnvs(OutputFile) :
          LET w == InternalToHive(RegKey, NtSetValueKey, Env) IN
          /\ Result' = w.Result
          /\ NtSetValueKey' = w.NtSetValueKey
          /\ WriteDone' = w.Whole
          /\ HkeyCall' = HkeyCalled(RegKey, NtSetValueKey, Env)
    /\ pc' = "Cleanup"
    /\ UNCHANGED <<writeVars, FileContents>>

\* InternalToRegfile(InternalStruct, OutputFile, false or true): the file
\* opens or not, and a write to it fails or not
WriteReg ==
    /\ pc = "output"
    /\ OutputFormat \in {"Reg", "RegWithHiveswarmingExtensions"}
    /\ \E Opened \in OpenOutcomes(OutputFile), WriteFile \in {"S_OK", "E_DISKFULL"} :
          LET w == InternalToRegfile(RegKey, OutputFormat = "RegWithHiveswarmingExtensions") IN
          /\ Result' = IF FAILED(Opened) THEN Opened
                       ELSE IF FAILED(WriteFile) THEN WriteFile ELSE w.Result
          /\ FileContents' = IF SUCCEEDED(Opened) /\ SUCCEEDED(WriteFile)
                             THEN w.Text ELSE <<>>
          /\ WriteDone' = (SUCCEEDED(Opened) /\ SUCCEEDED(WriteFile) /\ SUCCEEDED(w.Result))
    /\ pc' = "Cleanup"
    /\ UNCHANGED <<writeVars, NtSetValueKey, HkeyCall>>

\* InternalToPolfile(InternalStruct, OutputFile)
WritePol ==
    /\ pc = "output"
    /\ OutputFormat = "Pol"
    /\ \E Opened \in OpenOutcomes(OutputFile), WriteFile \in {"S_OK", "E_DISKFULL"} :
          /\ Result' = IF FAILED(Opened) THEN Opened ELSE WriteFile
          /\ WriteDone' = (SUCCEEDED(Opened) /\ SUCCEEDED(WriteFile))
    /\ pc' = "Cleanup"
    /\ UNCHANGED <<writeVars, FileContents, NtSetValueKey, HkeyCall>>

\* lines 702 to 704: no output format, or an unknown one
WriteUnknown ==
    /\ pc = "output"
    /\ OutputFormat = "Unknown"
    /\ Result' = "E_UNEXPECTED"
    /\ pc' = "Cleanup"
    /\ UNCHANGED <<writeVars, FileContents, NtSetValueKey, WriteDone, HkeyCall>>

\* line 715: return FAILED(Result) ? EXIT_FAILURE : EXIT_SUCCESS
EXIT_SUCCESS == 0
EXIT_FAILURE == 1

Cleanup ==
    /\ pc = "Cleanup"
    /\ ExitStatus' = IF FAILED(Result) THEN EXIT_FAILURE ELSE EXIT_SUCCESS
    /\ pc' = "done"
    /\ UNCHANGED <<convVars, Argc, ArgIndex, InputFormat, OutputFormat, InputFile,
                   OutputFile, Result>>

NextMain ==
    \/ NoArguments
    \/ \E Format \in Arguments : FromSwitchArgument(Format)
    \/ \E Format \in Arguments : ToSwitchArgument(Format)
    \/ \E Arg \in Arguments : InputFileArgument(Arg)
    \/ \E Arg \in Arguments : OutputFileArgument(Arg)
    \/ \E Arg \in Arguments : ExtraArgument(Arg)
    \/ ReadHive
    \/ ReadReg
    \/ ReadPol
    \/ ReadUnknown
    \/ WriteHive
    \/ WriteReg
    \/ WritePol
    \/ WriteUnknown
    \/ Cleanup

SpecMain == InitMain /\ [][NextMain]_vars

\* C4 as stated: when the program was given at least one argument and exits
\* with status 0, the input was read whole and the output was written whole.
C4_ExitStatus ==
    (pc = "done" /\ Argc > 1 /\ ExitStatus = EXIT_SUCCESS) => (ReadDone /\ WriteDone)

\* the same for the outputs other than a hive
C4_ExitStatusExceptHive ==
    (pc = "done" /\ Argc > 1 /\ ExitStatus = EXIT_SUCCESS /\ OutputFormat # "Hive")
        => (ReadDone /\ WriteDone)

\* a failure at any step but the rendering into the hive gives a non-zero status
C4_FailureStatus ==
    (pc = "done" /\ FAILED(Result)) => ExitStatus = EXIT_FAILURE

(***************************************************************************)
(* SpecValue: one value is rendered by RenderRegistryValue, and the line   *)
(* it made is read back by ValueListToInternal.                            *)
(***************************************************************************)
\* names that leave 2, 4 and 6 code units before the data of the value
LineNames == {<<>>, <<97>>, <<97, 97, 97>>}

\* the data of the examples: a DWORD and a QWORD in little-endian order, a
\* string without its null, 41 null bytes, all the lengths around the wraps
ExampleData ==
    {<<REG_DWORD, <<120, 86, 52, 18>>>>, <<REG_DWORD, <<239, 205, 171, 137, 103>>>>,
     <<REG_QWORD, <<239, 205, 171, 137, 103, 69, 35, 1>>>>,
     <<REG_QWORD, <<239, 205, 171, 137, 103, 69, 35>>>>,
     <<REG_SZ, <<65, 0, 66, 0>>>>, <<REG_SZ, <<65, 0, 66, 0, 0, 0>>>>,
     <<REG_SZ, <<92, 0, 34, 0, 10, 0, 0, 0>>>>}
      \cup {<<t, [i \in 1..n |-> 0]>> : t \in {REG_BINARY, REG_MULTI_SZ, 300}, n \in 22..28}
      \cup {<<t, [i \in 1..n |-> 0]>> : t \in {REG_BINARY, REG_MULTI_SZ}, n \in {41, 47, 48, 49, 50, 51, 52}}

\* multi-strings of several strings: n strings of m letters each
SeveralStrings ==
    {ToBytes([i \in 1..(n * (m + 1)) |-> IF i % (m + 1) = 0 THEN 0 ELSE 65]) :
        n \in 2..6, m \in {1, 9, 30, 37}}

LineValues ==
    {[Name |-> n, Type |-> td[1], BinaryValue |-> td[2]] :
        n \in LineNames,
        td \in TypedData \cup ExampleData
                 \cup ({REG_MULTI_SZ, REG_EXPAND_SZ} \X SeveralStrings)}

InitValue ==
    /\ pc = "value"
    /\ Value \in LineValues
    /\ EnableExtensions \in BOOLEAN
    /\ Line = <<>>
    /\ Parsed = NotParsed
    /\ Rendering = <<>>
    /\ Markers = 0
    /\ Result = "S_OK"
    /\ RegKey = EmptyKey
    /\ Original = EmptyKey
    /\ FileContents = <<>>
    /\ FirstContents = <<>>
    /\ Headers = <<>>
    /\ Source = "written"
    /\ KeysInFile = <<>>
    /\ Unparsed = 0
    /\ NoInvocation
    /\ NoSteps

\* what a run on one value line leaves alone
treeVars == <<RegKey, FileContents, Original, FirstContents, Headers, Source, KeysInFile,
              Unparsed, mainVars, stepVars>>

\* RenderRegistryValue(OutFileHandle, Value, EnableExtensions)
RenderValue ==
    /\ pc = "value"
    /\ Result' = RenderRegistryValue(Value, EnableExtensions).Result
    /\ Line' = RenderRegistryValue(Value, EnableExtensions).Text
    /\ Rendering' = RenderRegistryValue(Value, EnableExtensions).Text
    /\ pc' = "line"
    /\ UNCHANGED <<Value, EnableExtensions, Parsed, Markers, treeVars>>

\* ValueListToInternal(ReadHead, Values) with the line for ReadHead
ReadValueLine ==
    /\ pc = "line"
    /\ SUCCEEDED(Result)
    /\ Parsed' = ValueListToInternal(Line, 1)
    /\ Result' = ValueListToInternal(Line, 1).Result
    /\ pc' = "decoded"
    /\ UNCHANGED <<Value, EnableExtensions, Line, Rendering, Markers, treeVars>>

\* the values whose line is edited before it is read: no bytes, few bytes,
\* bytes on two lines, strings
MaxMarkers == 2
MarkedData ==
    {<<REG_BINARY, <<0, 26, 255>>>>, <<300, <<0, 26, 255, 0>>>>,
     <<REG_BINARY, [i \in 1..26 |-> 0]>>,
     <<REG_MULTI_SZ, ToBytes(<<65, 0, 0>>)>>,
     <<REG_MULTI_SZ, ToBytes([i \in 1..12 |-> IF i % 2 = 0 THEN 0 ELSE 65])>>,
     <<REG_EXPAND_SZ, ToBytes([i \in 1..20 |-> IF i % 10 = 0 THEN 0 ELSE 65])>>}
MarkedValues == {v \in LineValues : v.Name = <<>> /\ <<v.Type, v.BinaryValue>> \in MarkedData}

\* the numbers of spaces of a continuation marker put into the line
MarkerSpaces == {0, 1, 3}

\* s with t put in after its p-th code unit
InsertedAfter(s, p, t) == SubSeq(s, 1, p) \o t \o SubSeq(s, p + 1, Len(s))

\* a continuation marker, a backslash, CRLF and n spaces, is put into the
\* line after the separator at p
InsertContinuation(p, n) ==
    /\ pc = "line"
    /\ SUCCEEDED(Result)
    /\ Value \in MarkedValues
    /\ Markers < MaxMarkers
    /\ Line[p] = HexByteSeparator
    /\ p > Len(RenderValueName(Value.Name))
    /\ Line' = InsertedAfter(Line, p, EscapedNewLine \o Spaces(n))
    /\ Markers' = Markers + 1
    /\ UNCHANGED <<pc, Result, Value, EnableExtensions, Parsed, Rendering, treeVars>>

NextValue ==
    \/ RenderValue
    \/ \E p \in 1..Len(Line), n \in MarkerSpaces : InsertContinuation(p, n)
    \/ ReadValueLine

SpecValue == InitValue /\ [][NextValue]_vars

\* the line was rendered from Value and is as it was rendered
Rendered == pc \in {"line", "decoded"} /\ Source = "written" /\ Markers = 0

\* the line was rendered from Value and continuation markers were put into it
Marked == pc \in {"line", "decoded"} /\ Source = "written" /\ Markers > 0

\* what follows the name and the = on the line
DataText == SubSeq(Line, Len(RenderValueName(Value.Name)) + 1, Len(Line))

\* the line was read back as one value of the name, the type and the data of Value
ReadBack == Parsed = [Result |-> "S_OK", ReadHead |-> Len(Line) + 1, Values |-> <<Value>>]

\* the sixteen digits std::hex writes
LowerHexDigits == <<48, 49, 50, 51, 52, 53, 54, 55, 56, 57, 97, 98, 99, 100, 101, 102>>

\* the two digits of a byte
TwoDigits(b) == <<LowerHexDigits[(b \div 16) + 1], LowerHexDigits[(b % 16) + 1]>>

\* the digits of a number held in little-endian order, most significant first
DigitsOfNumber(bytes) ==
    [c \in 1..(2 * Len(bytes)) |-> TwoDigits(bytes[Len(bytes) - ((c - 1) \div 2)])[((c - 1) % 2) + 1]]

\* the bytes as pairs of digits with a comma between two pairs
CommaSeparatedPairs(bytes) ==
    [c \in 1..(3 * Len(bytes) - 1) |->
        IF c % 3 = 0 THEN 44 ELSE TwoDigits(bytes[((c - 1) \div 3) + 1])[((c - 1) % 3) + 1]]

\* C11: a DWORD value of 4 bytes is written as dword: and the 8 digits of the
\* little-endian number (78 56 34 12 gives dword:12345678) and is read back
\* as a DWORD of the same 4 bytes; a DWORD value of another length is written
\* by the hexadecimal renderer, which succeeds.
C11_DwordRendering ==
    (Rendered /\ Value.Type = REG_DWORD) =>
        /\ Len(Value.BinaryValue) = 4 =>
              /\ DataText = DwordPrefix \o <<58>> \o DigitsOfNumber(Value.BinaryValue) \o NewLines
              /\ pc = "decoded" => ReadBack
        /\ Value.BinaryValue = <<120, 86, 52, 18>> =>
              DataText = DwordPrefix \o <<58, 49, 50, 51, 52, 53, 54, 55, 56>> \o NewLines
        /\ Len(Value.BinaryValue) # 4 =>
              /\ pc = "line" => Result = "S_OK"
              /\ SubSeq(DataText, 1, 7) = HexPrefix \o <<40, 52, 41, 58>>
              /\ DataText # <<>>

C11_Witness ==
    /\ pc = "decoded"
    /\ Value.Type = REG_DWORD
    /\ Value.BinaryValue = <<120, 86, 52, 18>>
    /\ Parsed.Result = "S_OK"
    /\ Parsed.Values[1].BinaryValue = <<120, 86, 52, 18>>

\* C12 as stated: the REG_SZ value of the bytes 41 00 42 00 is written as
\* hex:41,00,42,00.
C12_FallbackTextWithoutType ==
    (Rendered /\ Value.Type = REG_SZ /\ Value.BinaryValue = <<65, 0, 66, 0>>) =>
        DataText = HexPrefix \o <<58>> \o <<52, 49, 44, 48, 48, 44, 52, 50, 44, 48, 48>> \o NewLines

\* C12: the REG_SZ value of the bytes 41 00 42 00 (no null at the end) is
\* written in hexadecimal with its type, hex(1):41,00,42,00, and not as a
\* quoted string; it is read back as a REG_SZ value of the same bytes.
C12_FallbackText ==
    (Rendered /\ Value.Type = REG_SZ /\ Value.BinaryValue = <<65, 0, 66, 0>>) =>
        /\ DataText = HexPrefix \o <<40, 49, 41, 58>>
                        \o <<52, 49, 44, 48, 48, 44, 52, 50, 44, 48, 48>> \o NewLines
        /\ DataText[1] # StringDelimiter
        /\ pc = "decoded" => ReadBack

C12_Witness ==
    /\ pc = "decoded"
    /\ Value.Type = REG_SZ
    /\ Value.BinaryValue = <<65, 0, 66, 0>>
    /\ Parsed.Result = "S_OK"

\* the code units of the data of Value
WideData == ToWstring(Value.BinaryValue)

\* what one code unit of a string becomes between the quotes: a backslash
\* before a backslash and a double quote, a carriage return before a new line
UnitImage(c) ==
    IF c = 92 THEN <<92, 92>>
    ELSE IF c = 34 THEN <<92, 34>>
    ELSE IF c = 10 THEN <<13, 10>>
    ELSE <<c>>

\* how many code units the images of the first i code units of S take
ImageEnd(S, i) == i + Cardinality({j \in 1..i : S[j] \in {92, 34, 10}})

\* the code unit of S whose image holds the c-th code unit of the text
UnitOf(S, c) == CHOOSE i \in 1..Len(S) : ImageEnd(S, i - 1) < c /\ c <= ImageEnd(S, i)

\* the images of the code units of S one after the other
StringImage(S) ==
    IF \A i \in 1..Len(S) : S[i] \notin {92, 34, 10} THEN S
    ELSE [c \in 1..ImageEnd(S, Len(S)) |-> UnitImage(S[UnitOf(S, c)])[c - ImageEnd(S, UnitOf(S, c) - 1)]]

\* the first null of W at or after Start
NextNull(W, Start) ==
    CHOOSE e \in {j \in Start..Len(W) : W[j] = 0} : \A j \in {k \in Start..Len(W) : W[k] = 0} : e <= j

\* the strings of W from Start on, each ended by a null, between quotes and joined by commas
RECURSIVE QuotedFrom(_, _)
QuotedFrom(W, Start) ==
    <<34>> \o StringImage(SubSeq(W, Start, NextNull(W, Start) - 1)) \o <<34>>
      \o (IF NextNull(W, Start) = Len(W) THEN <<>>
          ELSE <<44>> \o QuotedFrom(W, NextNull(W, Start) + 1))

\* the data is a string that can be quoted: an even number of bytes, not
\* empty, a null at the end and nowhere else
Quotable ==
    /\ Len(Value.BinaryValue) % 2 = 0
    /\ Value.BinaryValue # <<>>
    /\ WideData[Len(WideData)] = 0
    /\ \A i \in 1..(Len(WideData) - 1) : WideData[i] # 0

\* the data is a list of strings: an even number of bytes, not empty, a null at the end
Listable ==
    /\ Len(Value.BinaryValue) % 2 = 0
    /\ Value.BinaryValue # <<>>
    /\ WideData[Len(WideData)] = 0

\* the data text without the continuations (backslash, CRLF, n spaces) it holds
Unwrapped(n) == GlobalStringSubstitute(DataText, EscapedNewLine \o Spaces(n), <<>>)

\* the digits of a type tag below 16^3, without leading zero
TypeDigits(t) ==
    IF t < 16 THEN <<LowerHexDigits[t + 1]>>
    ELSE IF t < 256 THEN TwoDigits(t)
    ELSE <<LowerHexDigits[(t \div 256) + 1]>> \o TwoDigits(t % 256)

\* hex: for REG_BINARY, hex(TT): for another type
HexFormPrefix(t) ==
    IF t = REG_BINARY THEN HexPrefix \o <<58>>
    ELSE HexPrefix \o <<40>> \o TypeDigits(t) \o <<41, 58>>

\* the data text is the hexadecimal form of Value
HexForm ==
    Unwrapped(HexNewLineLeadingSpaces)
      = HexFormPrefix(Value.Type) \o CommaSeparatedPairs(Value.BinaryValue) \o NewLines

\* C13: a REG_SZ value is written as a quoted string exactly when its data
\* has an even length, is not empty, ends with a null and holds no other
\* null; then the text is the data without its null between quotes, with a
\* backslash before every backslash and double quote and CRLF for every new
\* line; otherwise the text is the hexadecimal form and the rendering succeeds.
C13_StringRendering ==
    (Rendered /\ Value.Type = REG_SZ) =>
        /\ DataText[1] = StringDelimiter <=> Quotable
        /\ Quotable =>
              DataText = <<34>> \o StringImage(SubSeq(WideData, 1, Len(WideData) - 1))
                           \o <<34>> \o NewLines
        /\ ~Quotable => HexForm /\ (pc = "line" => Result = "S_OK")

C13_Witness ==
    /\ pc = "decoded"
    /\ Value.Type = REG_SZ
    /\ WideData = <<92, 34, 10, 0>>
    /\ DataText = <<34, 92, 92, 92, 34, 13, 10, 34, 13, 10>>
    /\ Parsed.Result = "S_OK"

\* C14: the hexadecimal form is hex: for REG_BINARY and hex(TT): with the
\* lowercase digits of the type for another type, then the bytes as pairs of
\* digits with one comma between two pairs, none after the last, and CRLF
\* alone for no byte; reading it gives the same type and the same bytes.
C14_HexadecimalForm ==
    (Rendered /\ SubSeq(DataText, 1, 3) = HexPrefix) =>
        /\ HexForm
        /\ Value.BinaryValue = <<>> => DataText = HexFormPrefix(Value.Type) \o NewLines
        /\ pc = "decoded" => ReadBack

C14_Witness ==
    /\ pc = "decoded"
    /\ Value.Type = 300
    /\ Len(Value.BinaryValue) = 28
    /\ SubSeq(DataText, 1, 9) = <<104, 101, 120, 40, 49, 50, 99, 41, 58>>
    /\ Find(DataText, EscapedNewLine, 1) # 0
    /\ ReadBack

\* the text holds none of the tokens of the extensions
NoExtensionToken ==
    /\ Find(DataText, QwordPrefix \o <<58>>, 1) = 0
    /\ Find(DataText, MultiSzPrefix \o <<58>>, 1) = 0
    /\ Find(DataText, ExpandSzPrefix \o <<58>>, 1) = 0

\* the comma-joined quoted strings of the data after the token of the type
QuotedStrings(Prefix) ==
    Unwrapped(Len(RenderValueName(Value.Name)))
      = Prefix \o <<58>> \o QuotedFrom(WideData, 1) \o NewLines

\* C15: without the extensions a QWORD, MULTI_SZ or EXPAND_SZ value is
\* written in the hexadecimal form, with no qword:, multi_sz: or expand_sz:
\* token; with them a QWORD of 8 bytes is qword: and 16 digits, a MULTI_SZ or
\* EXPAND_SZ of an even length, not empty, ending with a null is the
\* comma-joined quoted strings, and any other value of these types is in the
\* hexadecimal form.  The text of a DWORD or REG_SZ value is the same with
\* and without the extensions.
C15_ExtensionGating ==
    Rendered =>
        /\ (Value.Type \in {REG_QWORD, REG_MULTI_SZ, REG_EXPAND_SZ} /\ ~EnableExtensions) =>
              HexForm /\ NoExtensionToken
        /\ (Value.Type = REG_QWORD /\ EnableExtensions) =>
              IF Len(Value.BinaryValue) = 8
              THEN DataText = QwordPrefix \o <<58>> \o DigitsOfNumber(Value.BinaryValue) \o NewLines
              ELSE HexForm
        /\ (Value.Type = REG_MULTI_SZ /\ EnableExtensions) =>
              IF Listable THEN QuotedStrings(MultiSzPrefix) ELSE HexForm
        /\ (Value.Type = REG_EXPAND_SZ /\ EnableExtensions) =>
              IF Listable THEN QuotedStrings(ExpandSzPrefix) ELSE HexForm
        /\ Value.Type \in {REG_DWORD, REG_SZ} =>
              Line = RenderRegistryValue(Value, ~EnableExtensions).Text

C15_Witness ==
    /\ pc = "line"
    /\ EnableExtensions
    /\ Value.Type = REG_MULTI_SZ
    /\ WideData = <<34, 0, 0>>
    /\ DataText = MultiSzPrefix \o <<58, 34, 92, 34, 34, 44, 34, 34>> \o NewLines

\* the text after the name starts with hex
IsHexForm == SubSeq(DataText, 1, 3) = HexPrefix

\* the positions of the separators of the data
Separators == {p \in (Len(Line) - Len(DataText) + 1)..Len(Line) : Line[p] = HexByteSeparator}

\* the position of the last new line at or before p, 0 when there is none
LastNewLine(p) ==
    CHOOSE q \in {0} \cup {r \in 1..p : Line[r] = 10} :
        \A r \in {0} \cup {s \in 1..p : Line[s] = 10} : r <= q

\* the number of characters of the line of p up to p
ColumnAt(p) == p - LastNewLine(p)

\* a continuation follows position p: a backslash, CRLF, exactly n spaces
ContinuationAfter(p, n) ==
    /\ p + 3 + n < Len(Line)
    /\ SubSeq(Line, p + 1, p + 3 + n) = EscapedNewLine \o Spaces(n)
    /\ Line[p + 4 + n] # LeadingSpace

\* the positions of the backslashes of the data
Backslashes == {p \in (Len(Line) - Len(DataText) + 1)..Len(Line) : Line[p] = 92}

IsStringList ==
    /\ Rendered
    /\ EnableExtensions
    /\ Value.Type \in {REG_MULTI_SZ, REG_EXPAND_SZ}
    /\ Listable

\* the backslashes that open a continuation: after a separator, before CRLF
Continuations ==
    {p \in Backslashes : Line[p - 1] = MultiSzSeparator /\ SubSeq(Line, p, p + 2) = EscapedNewLine}

\* C17: in a multi_sz: or expand_sz: rendering a continuation comes only
\* after a string and its separator that bring the line, counted from its
\* first character, over MultiSzWrappingLimit - 2 characters: one more
\* separator and backslash would pass 80.
C17_WrapOnlyAtLimit ==
    IsStringList => \A p \in Continuations : ColumnAt(p - 1) > MultiSzWrappingLimit - 2

\* the line after a continuation starts with as many spaces as the name part is long
C17_LeadingSpaces ==
    IsStringList =>
        \A p \in Continuations : ContinuationAfter(p - 1, Len(RenderValueName(Value.Name)))

\* six strings of one letter under the default name: the continuation comes
\* after the fifth string, on a line of 31 characters
C17_ShortLineWrapped ==
    /\ IsStringList
    /\ Value.Name = <<>>
    /\ WideData = <<65, 0, 65, 0, 65, 0, 65, 0, 65, 0, 65, 0>>
    /\ Continuations = {32}
    /\ ColumnAt(31) = 31

\* a name with a new line
HasNewline(Name) == \E i \in 1..Len(Name) : Name[i] = 10

RECURSIVE PathsOf(_, _)
\* the paths of the keys of a tree, the names joined by backslashes
PathsOf(Key, Prefix) ==
    {Prefix \o Key.Name}
      \cup UNION {PathsOf(Key.Subkeys[i], Prefix \o Key.Name \o <<PathSeparator>>) :
                     i \in 1..Len(Key.Subkeys)}

\* how many code units the first i code units of S take with CRLF for every new line
CrLfEnd(S, i) == i + Cardinality({j \in 1..i : S[j] = 10})

\* the code unit of S that gives the c-th code unit of the text
CrLfUnitOf(S, c) == CHOOSE i \in 1..Len(S) : CrLfEnd(S, i - 1) < c /\ c <= CrLfEnd(S, i)

\* S with a carriage return before every new line
WithCrLf(S) ==
    [c \in 1..CrLfEnd(S, Len(S)) |->
        IF S[CrLfUnitOf(S, c)] = 10 /\ c < CrLfEnd(S, CrLfUnitOf(S, c)) THEN 13
        ELSE S[CrLfUnitOf(S, c)]]

\* every key of the tree written has its header, the new lines of its path as CRLF
HeadersWithCrLf ==
    \A path \in PathsOf(Original, <<>>) :
        Find(FirstContents, <<KeyOpening>> \o WithCrLf(path) \o <<KeyClosing>> \o NewLines, 1) # 0

\* a key of the tree written has a new line in its name
NewlineInTree == \E k \in AllKeysOf(Original) : HasNewline(k.Name)

\* C18 as stated: a tree with a new line in a key name is written with CRLF
\* for that new line in the header and read back as the same tree: the key
\* once, under its name, with its values and its descendants.
C18_AnyNewlineName ==
    (pc = "read" /\ NewlineInTree) =>
        (HeadersWithCrLf /\ Result = "S_OK" /\ RegKey = Original)

\* C18, amended: a tree with a new line in a key name, no closing bracket
\* just before a new line in any name, is written with CRLF for that new line
\* in the header and read back as the same tree: the key once, under its
\* name, with its values and its descendants.
C18_NewlineName ==
    (pc = "read" /\ NewlineInTree /\ ReadableKeyNames(Original)) =>
        (HeadersWithCrLf /\ Result = "S_OK" /\ RegKey = Original)

C18_Witness ==
    /\ pc = "read"
    /\ Result = "S_OK"
    /\ Original = [Name |-> RootName, Values |-> <<>>,
                   Subkeys |-> <<NewlineKey(<<97, 10, 97>>, <<10>>), Leaf(<<98>>)>>]
    /\ RegKey = Original
    /\ Find(FirstContents, <<91, 82, 92, 97, 13, 10, 97, 92, 13, 10, 93, 13, 10>>, 1) # 0

(***************************************************************************)
(* SpecLine: one value line of a .reg file, as a file may hold it, is read *)
(* by ValueListToInternal.                                                 *)
(***************************************************************************)
\* s with its i-th code unit replaced by c
Replaced(s, i, c) == [j \in 1..Len(s) |-> IF j = i THEN c ELSE s[j]]

\* the first k code units of s, all of them when s is shorter
FirstUnits(s, k) == SubSeq(s, 1, IF k < Len(s) THEN k ELSE Len(s))

\* 8 and 16 digits in both letter cases
DwordLiterals ==
    {<<49, 50, 97, 98, 67, 68, 101, 70>>, <<48, 48, 48, 48, 48, 48, 48, 48>>,
     <<102, 102, 102, 102, 102, 102, 102, 102>>, <<70, 70, 70, 70, 70, 70, 70, 70>>}
QwordLiterals ==
    {<<48, 49, 50, 51, 52, 53, 54, 55, 56, 57, 97, 98, 99, 68, 69, 70>>,
     [i \in 1..16 |-> 48]}

\* what is not a digit: + - x X space tab g G . , and a carriage return
NotDigits == {43, 45, 120, 88, 32, 9, 103, 71, 46, 44, 13}

\* a literal, a literal with one code unit that is not a digit, a literal cut
\* short, a literal with one more digit
LiteralTexts(Literals) ==
    Literals
      \cup {Replaced(l, i, c) : l \in Literals, i \in {1, 2, 3, 7, 8, 15, 16}, c \in NotDigits}
      \cup {FirstUnits(l, k) : l \in Literals, k \in {0, 1, 6, 7, 14, 15}}
      \cup {Append(l, 57) : l \in Literals}

\* what follows the literal on the line
LineEndings == {NewLines, <<>>, <<13>>, <<10>>, <<32, 13, 10>>}

DwordStart == DefaultValue \o <<ValueNameSeparator>> \o DwordPrefix \o <<ValueTypeAndDataSeparator>>
QwordStart == DefaultValue \o <<ValueNameSeparator>> \o QwordPrefix \o <<ValueTypeAndDataSeparator>>

NumberLines ==
    {DwordStart \o l \o e : l \in LiteralTexts(DwordLiterals), e \in LineEndings}
      \cup {QwordStart \o l \o e : l \in LiteralTexts(QwordLiterals), e \in LineEndings}

\* what stands between two bytes or two strings: one comma, nothing, two
\* commas, a comma and a continuation, a continuation and a comma, a
\* continuation alone
Continuation == EscapedNewLine \o Spaces(2)
GoodSeparations == {<<44>>, <<44>> \o Continuation}
Separations == GoodSeparations \cup {<<>>, <<44, 44>>, Continuation \o <<44>>, Continuation}

\* what stands before the first and after the last: nothing, or a comma
Margins == {<<>>, <<44>>}

HexStart == DefaultValue \o <<ValueNameSeparator>> \o HexPrefix \o <<ValueTypeAndDataSeparator>>
MultiSzStart == DefaultValue \o <<ValueNameSeparator>> \o MultiSzPrefix \o <<ValueTypeAndDataSeparator>>

\* the bytes 01 a2 Ff and the strings "a" "b" "c"
HexLine(Lead, s1, s2, Trail) ==
    HexStart \o Lead \o <<48, 49>> \o s1 \o <<97, 50>> \o s2 \o <<70, 102>> \o Trail \o NewLines
MultiSzLine(Lead, s1, s2, Trail) ==
    MultiSzStart \o Lead \o <<34, 97, 34>> \o s1 \o <<34, 98, 34>> \o s2 \o <<34, 99, 34>>
      \o Trail \o NewLines

HexLines == {HexLine(l, s1, s2, t) : l \in Margins, s1 \in Separations, s2 \in Separations, t \in Margins}
MultiSzLines ==
    {MultiSzLine(l, s1, s2, t) : l \in Margins, s1 \in Separations, s2 \in Separations, t \in Margins}

\* the lines with one separator between two units and none before or after
WellSeparatedLines ==
    {HexLine(<<>>, s1, s2, <<>>) : s1 \in GoodSeparations, s2 \in GoodSeparations}
      \cup {MultiSzLine(<<>>, s1, s2, <<>>) : s1 \in GoodSeparations, s2 \in GoodSeparations}

\* the tokens of the types, each with data of its form
TokensWithData ==
    {<<DwordPrefix, <<48, 48, 48, 48, 48, 48, 50, 97>>>>,
     <<QwordPrefix, <<48, 48, 48, 48, 48, 48, 48, 48, 48, 48, 48, 48, 48, 48, 50, 97>>>>,
     <<HexPrefix, <<48, 49, 44, 48, 50>>>>,
     <<MultiSzPrefix, <<34, 97, 34, 44, 34, 98, 34>>>>,
     <<ExpandSzPrefix, <<34, 97, 34, 44, 34, 98, 34>>>>}

\* what stands between the token and the colon: nothing, a type between
\* parentheses ((1), (7), (b), (12C)), or parentheses with no type in them
TypeSpecs ==
    {<<>>, <<40, 49, 41>>, <<40, 55, 41>>, <<40, 98, 41>>, <<40, 49, 50, 67, 41>>,
     <<40, 41>>, <<40, 103, 41>>, <<40, 52>>, <<32>>}

\* a value line of every token and type specification, and quoted strings
PrefixLines ==
    {DefaultValue \o <<ValueNameSeparator>> \o td[1] \o ts \o <<ValueTypeAndDataSeparator>>
        \o td[2] \o NewLines : td \in TokensWithData, ts \in TypeSpecs}
      \cup {DefaultValue \o <<ValueNameSeparator, 34>> \o str \o <<34>> \o NewLines :
               str \in {<<>>, <<97>>, DwordPrefix \o <<58, 49>>, HexPrefix \o <<40, 55, 41, 58>>}}

InitLine ==
    /\ pc = "line"
    /\ Line \in NumberLines \cup HexLines \cup MultiSzLines \cup PrefixLines
    /\ Value = NoValue
    /\ EnableExtensions \in BOOLEAN
    /\ Parsed = NotParsed
    /\ Rendering = <<>>
    /\ Markers = 0
    /\ Result = "S_OK"
    /\ RegKey = EmptyKey
    /\ Original = EmptyKey
    /\ FileContents = <<>>
    /\ FirstContents = <<>>
    /\ Headers = <<>>
    /\ Source = "line"
    /\ KeysInFile = <<>>
    /\ Unparsed = 0
    /\ NoInvocation
    /\ NoSteps

NextLine == ReadValueLine

SpecLine == InitLine /\ [][NextLine]_vars

\* the line was given and read
Decoded == pc = "decoded" /\ Source = "line"

\* what follows the start of the line
After(Start) == SubSeq(Line, Len(Start) + 1, Len(Line))

\* n hexadecimal digits, of either case, and CRLF
IsNumber(Text, n) ==
    /\ Len(Text) = n + 2
    /\ \A i \in 1..n : Text[i] \in (48..57) \cup (65..70) \cup (97..102)
    /\ SubSeq(Text, n + 1, n + 2) = NewLines

\* the value of a digit, and the bytes of a number of n digits, least significant first
DigitValueOf(c) == IF c \in 48..57 THEN c - 48 ELSE IF c \in 65..70 THEN c - 55 ELSE c - 87
BytesOfNumber(Text, n) ==
    [i \in 1..(n \div 2) |-> 16 * DigitValueOf(Text[n - 2 * i + 1]) + DigitValueOf(Text[n - 2 * i + 2])]

\* the line was read as the default value of the type and the bytes
ReadAs(Type, Bytes) ==
    Parsed = [Result |-> "S_OK", ReadHead |-> Len(Line) + 1,
              Values |-> <<[Name |-> <<>>, Type |-> Type, BinaryValue |-> Bytes]>>]

\* the line was refused and gave no value
Refused == Parsed.Result = "E_UNEXPECTED" /\ Parsed.Values = <<>> /\ Result = "E_UNEXPECTED"

\* C19: a dword: (qword:) line is read, as a DWORD (QWORD) of the bytes of
\* the number, exactly when 8 (16) hexadecimal digits of either case and CRLF
\* follow the token; a shorter or longer literal, a sign, 0x, a space or any
\* other code unit among the digits, or a missing CRLF, is a parse error and
\* no value is read.
C19_StrictNumericLiterals ==
    Decoded =>
        /\ StartsWithAt(Line, 1, DwordStart) =>
              IF IsNumber(After(DwordStart), 8)
              THEN ReadAs(REG_DWORD, BytesOfNumber(After(DwordStart), 8))
              ELSE Refused
        /\ StartsWithAt(Line, 1, QwordStart) =>
              IF IsNumber(After(QwordStart), 16)
              THEN ReadAs(REG_QWORD, BytesOfNumber(After(QwordStart), 16))
              ELSE Refused

\* @=dword:0x000000 is refused
C19_Witness ==
    /\ Decoded
    /\ Line = DwordStart \o <<48, 120, 48, 48, 48, 48, 48, 48>> \o NewLines
    /\ Refused

\* @=dword:12abCDeF is read as the bytes ef cd ab 12
C19_MixedCaseRead ==
    /\ Decoded
    /\ Line = DwordStart \o <<49, 50, 97, 98, 67, 68, 101, 70>> \o NewLines
    /\ ReadAs(REG_DWORD, <<239, 205, 171, 18>>)

\* C20: a line of hexadecimal bytes or of quoted strings is read only with
\* exactly one comma, and at most a continuation after it, between two
\* units: without a comma, with two commas, with a comma before the first
\* unit or after the last, or with a continuation that follows no comma, the
\* line is a parse error.
C20_OnlyWellSeparated ==
    (Decoded /\ Line \in (HexLines \cup MultiSzLines) \ WellSeparatedLines) => FAILED(Parsed.Result)

\* the lines with one separator between two units are read
C20_WellSeparatedRead ==
    (Decoded /\ Line \in WellSeparatedLines) =>
        \/ ReadAs(REG_BINARY, <<1, 162, 255>>)
        \/ ReadAs(REG_MULTI_SZ, ToBytes(<<97, 0, 98, 0, 99, 0>>))

\* @=hex:01,,a2,Ff is read as the bytes 01 a2 ff
C20_DoubledCommaRead ==
    /\ Decoded
    /\ Line = HexLine(<<>>, <<44, 44>>, <<44>>, <<>>)
    /\ ReadAs(REG_BINARY, <<1, 162, 255>>)

\* @=multi_sz:"a""b","c" is read as the strings a, b, c
C20_MissingCommaRead ==
    /\ Decoded
    /\ Line = MultiSzLine(<<>>, <<>>, <<44>>, <<>>)
    /\ ReadAs(REG_MULTI_SZ, ToBytes(<<97, 0, 98, 0, 99, 0>>))

\* the text of the line after the name and the = sign of the default value
AfterName == After(DefaultValue \o <<ValueNameSeparator>>)

\* the type a token stands for
TypeOfToken(Token) ==
    IF Token = DwordPrefix THEN REG_DWORD
    ELSE IF Token = QwordPrefix THEN REG_QWORD
    ELSE IF Token = MultiSzPrefix THEN REG_MULTI_SZ
    ELSE IF Token = ExpandSzPrefix THEN REG_EXPAND_SZ
    ELSE REG_BINARY

\* the line was read as one value
OneValueRead == Parsed.Result = "S_OK" /\ Len(Parsed.Values) = 1

\* C21: a type between parentheses is read only after hex; a line with
\* dword, qword, multi_sz or expand_sz and no colon right after it is
\* refused, so a value read from a line of these tokens has the type of the
\* token, a value read from a quoted string has type REG_SZ, and a value
\* read from hex: has type REG_BINARY.
C21_TypeOfPrefix ==
    (Decoded /\ Line \in PrefixLines) =>
        /\ \A Token \in {DwordPrefix, QwordPrefix, MultiSzPrefix, ExpandSzPrefix} :
              StartsWithAt(AfterName, 1, Token) =>
                 /\ ~StartsWithAt(AfterName, 1, Token \o <<ValueTypeAndDataSeparator>>)
                       => FAILED(Parsed.Result)
                 /\ OneValueRead => Parsed.Values[1].Type = TypeOfToken(Token)
        /\ (StartsWithAt(AfterName, 1, <<StringDelimiter>>) /\ OneValueRead)
              => Parsed.Values[1].Type = REG_SZ
        /\ (StartsWithAt(AfterName, 1, HexPrefix \o <<ValueTypeAndDataSeparator>>) /\ OneValueRead)
              => Parsed.Values[1].Type = REG_BINARY

\* @=dword(7):0000002a is read as a REG_MULTI_SZ value of the bytes 2a 00 00 00
C21_TypedDwordRead ==
    /\ Decoded
    /\ Line = DefaultValue \o <<ValueNameSeparator>> \o DwordPrefix \o <<40, 55, 41, 58>>
                \o <<48, 48, 48, 48, 48, 48, 50, 97>> \o NewLines
    /\ ReadAs(REG_MULTI_SZ, <<42, 0, 0, 0>>)

\* without parentheses the type is the one of the token, REG_SZ for a quoted
\* string, and a token followed by anything but a type between parentheses
\* or the colon is refused
C21_TypeWithoutParentheses ==
    (Decoded /\ Line \in PrefixLines) =>
        /\ \A Token \in {DwordPrefix, QwordPrefix, HexPrefix, MultiSzPrefix, ExpandSzPrefix} :
              StartsWithAt(AfterName, 1, Token \o <<ValueTypeAndDataSeparator>>)
                 => OneValueRead /\ Parsed.Values[1].Type = TypeOfToken(Token)
        /\ StartsWithAt(AfterName, 1, <<StringDelimiter>>)
              => OneValueRead /\ Parsed.Values[1].Type = REG_SZ
        /\ (\E i \in 1..Len(AfterName) : AfterName[i] \in {32, 103} /\ AfterName[1] # 34)
              => FAILED(Parsed.Result)

\* a key of the tree written has a closing bracket just before a new line in its name
BracketAtNewline == \E k \in AllKeysOf(Original) : Find(k.Name, <<KeyClosing, 10>>, 1) # 0

\* no key of the tree written has a path separator in its name
NoSeparatorInNames ==
    \A k \in AllKeysOf(Original) : \A i \in 1..Len(k.Name) : k.Name[i] # PathSeparator

\* no key of the tree written has an empty name
NoEmptyName == \A k \in AllKeysOf(Original) : k.Name # <<>>

C22_SeparatorNameRead ==
    /\ pc = "read"
    /\ Original = Leaf(<<97, 93, 10, 10, 91, 97, 92, 98>>)
    /\ Result = "S_OK"
    /\ RegKey = [Name |-> <<97>>, Values |-> <<>>, Subkeys |-> <<Leaf(<<98>>)>>]

(***************************************************************************)
(* SpecRepeat: a .reg file is put together from the preamble and key       *)
(* blocks, the same header or the same value line any number of times, and *)
(* then read by RegfileToInternal.                                         *)
(***************************************************************************)
MaxRepeatBlocks == 3

RepeatPaths == {RootPath, PathA, PathB, PathAC}

\* what follows the header line of a block: no value, one value, or the
\* same value line twice, then the blank line
RepeatKinds == {"empty", "value", "twice"}

RepeatBlockText(Path, Kind) ==
    <<KeyOpening>> \o Path \o <<KeyClosing>> \o NewLines
      \o CASE Kind = "empty" -> NewLines
           [] Kind = "value" -> GoodValueLine \o NewLines
           [] Kind = "twice" -> GoodValueLine \o GoodValueLine \o NewLines

InitRepeat ==
    /\ pc = "edit"
    /\ FileContents = Preamble
    /\ FirstContents = FileContents
    /\ Headers = <<>>
    /\ Source = "repeats"
    /\ RegKey = StaleKey
    /\ Original = StaleKey
    /\ EnableExtensions = FALSE
    /\ Result = "S_OK"
    /\ KeysInFile = <<>>
    /\ Unparsed = 0
    /\ NoInvocation
    /\ NoValueLine
    /\ NoSteps

\* one more key block at the end of the file, whatever the blocks before it
AppendAnyBlock(Path, Kind) ==
    /\ pc = "edit"
    /\ Source = "repeats"
    /\ Len(Headers) < MaxRepeatBlocks
    /\ FileContents' = FileContents \o RepeatBlockText(Path, Kind)
    /\ Headers' = Append(Headers, [Path |-> Path, Kind |-> Kind])
    /\ UNCHANGED <<pc, Result, RegKey, EnableExtensions, Original, FirstContents, Source,
                   KeysInFile, Unparsed, mainVars, valueVars, stepVars>>

NextRepeat ==
    \/ \E Path \in RepeatPaths, Kind \in RepeatKinds : AppendAnyBlock(Path, Kind)
    \/ ParseRegfile

SpecRepeat == InitRepeat /\ [][NextRepeat]_vars

RECURSIVE PathList(_, _)
RECURSIVE PathListOf(_, _, _)
\* the paths of the sub-keys of Key from the i-th on and of their descendants, in order
PathListOf(Key, Prefix, i) ==
    IF i > Len(Key.Subkeys) THEN <<>>
    ELSE PathList(Key.Subkeys[i], Prefix) \o PathListOf(Key, Prefix, i + 1)

\* the paths of the keys of a tree, one for every key
PathList(Key, Prefix) ==
    <<Prefix \o Key.Name>> \o PathListOf(Key, Prefix \o Key.Name \o <<PathSeparator>>, 1)

\* no two keys of the tree have the same path
DistinctPaths(Key) ==
    \A i, j \in 1..Len(PathList(Key, <<>>)) :
        PathList(Key, <<>>)[i] = PathList(Key, <<>>)[j] => i = j

\* no key of the tree has a path separator in its name
NamesWithoutSeparator(Key) ==
    \A k \in AllKeysOf(Key) : \A i \in 1..Len(k.Name) : k.Name[i] # PathSeparator

\* in no key of the tree do two values have the same name
DistinctValueNames(Key) == \A k \in AllKeysOf(Key) : DistinctNames(k.Values)

\* the file was put together from repeated blocks and read with success
RepeatsParsed == pc = "parsed" /\ Source = "repeats" /\ Result = "S_OK"

\* C23: the tree of a successful parse has no path separator in a key name,
\* no two keys of the same path (a header that comes twice is not read as
\* two keys) and, in each key, no two values of the same name.
C23_TreeInvariants ==
    RepeatsParsed =>
        /\ NamesWithoutSeparator(RegKey)
        /\ DistinctPaths(RegKey)
        /\ DistinctValueNames(RegKey)

\* [Root], [Root\A], [Root\A] was read as Root with two sub-keys named A
C23_SameKeyTwice ==
    /\ RepeatsParsed
    /\ [i \in 1..Len(Headers) |-> Headers[i].Path] = <<RootPath, PathA, PathA>>
    /\ Len(RegKey.Subkeys) = 2
    /\ RegKey.Subkeys[1].Name = RegKey.Subkeys[2].Name

\* [Root] with the line "v"=dword:0000002a twice was read as Root with two values named v
C23_SameValueTwice ==
    /\ RepeatsParsed
    /\ Headers = <<[Path |-> RootPath, Kind |-> "twice"]>>
    /\ RegKey.Values = <<GoodValue, GoodValue>>

\* [Root], [Root\B], [Root\A\C] was read as Root with the sub-keys B and A\C
C23_SeparatorInName ==
    /\ RepeatsParsed
    /\ [i \in 1..Len(Headers) |-> Headers[i].Path] = <<RootPath, PathB, PathAC>>
    /\ Len(RegKey.Subkeys) = 2
    /\ RegKey.Subkeys[2].Name = <<65, PathSeparator, 67>>

\* the line as it was rendered, without the continuations of the renderer
\* (two spaces under the default name for both forms)
StrippedRendering ==
    GlobalStringSubstitute(Rendering, EscapedNewLine \o Spaces(HexNewLineLeadingSpaces), <<>>)

\* no continuation marker is left in a text
NoMarkerIn(Text) == Find(Text, EscapedNewLine, 1) = 0

\* C24: a rendering of bytes or of strings with continuation markers (a
\* backslash, CRLF and any number of spaces, none included) put in after
\* separators is read as the same value, type and bytes, as the rendering
\* without any marker, and is read up to and including its CRLF.
C24_MarkersTransparent ==
    (Marked /\ pc = "decoded") =>
        /\ NoMarkerIn(StrippedRendering)
        /\ Parsed.Result = "S_OK"
        /\ Parsed.Values = ValueListToInternal(StrippedRendering, 1).Values
        /\ Parsed.Values = <<Value>>
        /\ Parsed.ReadHead = Len(Line) + 1

\* strings read with two markers in the line, one of them without a space
C24_Witness ==
    /\ Marked
    /\ pc = "decoded"
    /\ Markers = 2
    /\ Value.Type = REG_MULTI_SZ
    /\ EnableExtensions
    /\ Find(Line, <<MultiSzSeparator>> \o EscapedNewLine \o <<StringDelimiter>>, 1) # 0
    /\ Parsed.Values = <<Value>>

(***************************************************************************)
(* The parser one loop iteration at a time (C25).  RegList and ReadHead    *)
(* are views of one buffer handed on by reference, so one index is the     *)
(* read head of every function; ClosingQuotePos is the offset the loops    *)
(* of ReadNameOfRegistryValue and ReadString move before they advance the  *)
(* read head.  A step is one iteration of one loop; the statements that    *)
(* follow a return in the caller belong to the step that returns.          *)
(***************************************************************************)

\* a call of RegListToInternal: its arguments and the key of its iteration
CallOf(PathPrefix) ==
    [PathPrefix |-> PathPrefix, RegKeys |-> <<>>, KeyPath |-> <<>>, NewKey |-> EmptyKey,
     HasKey |-> FALSE]

\* the innermost call
TopCall(c) == c[Len(c)]
WithTopCall(c, f) == [c EXCEPT ![Len(c)] = f]

\* the next iteration with the read head left where it was
GoWithoutAdvance(c, r, at, p) ==
    [Calls |-> c, Reader |-> [r EXCEPT !.At = at, !.Returned = FALSE]]

\* the next iteration of the loop at, with the read head at p
Go(c, r, at, p) ==
    [Calls |-> c,
     Reader |-> [r EXCEPT !.At = at, !.ReadHead = p, !.ClosingQuotePos = 0,
                          !.Returned = FALSE]]

\* the step has taken a function to its return
Returning(m) == [m EXCEPT !.Reader.Returned = TRUE]

\* return hr, a failure: every caller up to RegfileToInternal returns it
Fail(c, r, hr) ==
    [Calls |-> <<>>,
     Reader |-> [r EXCEPT !.At = "Returned", !.Result = hr, !.Returned = TRUE,
                          !.RegKeys = c[1].RegKeys]]

\* RegListToInternal after its first loop: the test of RegList.empty()
KeyListStart(s, c, r, p) ==
    IF p > Len(s) THEN Fail(c, r, "E_UNEXPECTED") ELSE Go(c, r, "KeyList", p)

\* RegListToInternal is entered
EnterKeyList(s, c, r, p) ==
    IF StartsWithAt(s, p, <<13, 10>>) THEN Go(c, r, "LineBreaks", p)
    ELSE KeyListStart(s, c, r, p)

RECURSIVE KeyListReturn(_, _, _, _)

\* RegKeys.emplace_back(std::move(NewKey)), the line breaks, while (!RegList.empty())
AfterSubkeys(s, c, r, p) ==
    LET f == TopCall(c)
        emplaced == WithTopCall(c, [f EXCEPT !.RegKeys = Append(@, f.NewKey),
                                             !.NewKey = EmptyKey, !.HasKey = FALSE])
        q == RemoveLineBreakHeads(s, p)
    IN  IF q <= Len(s) THEN Go(emplaced, r, "KeyList", q)
        ELSE KeyListReturn(s, emplaced, r, q)

\* return S_OK of the innermost RegListToInternal: the caller has its sub-keys
KeyListReturn(s, c, r, p) ==
    IF Len(c) = 1
    THEN [Calls |-> <<>>,
          Reader |-> [r EXCEPT !.At = "Returned", !.Result = "S_OK", !.ReadHead = p,
                               !.RegKeys = TopCall(c).RegKeys]]
    ELSE AfterSubkeys(s, [i \in 1..(Len(c) - 1) |->
                              IF i = Len(c) - 1
                              THEN [c[i] EXCEPT !.NewKey.Subkeys = TopCall(c).RegKeys]
                              ELSE c[i]],
                      r, p)

\* return S_OK of ValueListToInternal: the sub-keys, if anything is left
ValueListReturn(s, c, r, p) ==
    IF p <= Len(s)
    THEN EnterKeyList(s, Append(c, CallOf(Append(TopCall(c).KeyPath, PathSeparator))), r, p)
    ELSE AfterSubkeys(s, c, r, p)

\* Values.emplace_back(std::move(Value)) and the next iteration of ValueListToInternal
Emplace(c, r, NewValue, p) ==
    Go(WithTopCall(c, [TopCall(c) EXCEPT !.NewKey.Values = Append(@, NewValue)]),
       [r EXCEPT !.Value = NoValue, !.Stream = <<>>], "ValueList", p)

\* ReadString is entered by Caller
EnterString(s, c, r, p, Caller) ==
    IF ~CharAt(s, p, StringDelimiter) THEN Fail(c, r, "E_UNEXPECTED")
    ELSE Go(c, [r EXCEPT !.Stream = <<>>, !.Caller = Caller], "String", p + 1)

\* ValueListToInternal from the separator after the name to the data
AfterNameRead(s, c, r, v) ==
    IF FAILED(v.Result) THEN Fail(c, r, v.Result)
    ELSE IF v.Mode \in {"Dword", "Qword"}
    THEN LET data == ReadValueData(s, v.ReadHead, v.Mode) IN
         IF FAILED(data.Result) THEN Fail(c, r, data.Result)
         ELSE Emplace(c, r, [Name |-> v.Name, Type |-> v.Type,
                             BinaryValue |-> data.BinaryValue], data.ReadHead)
    ELSE LET Typed == [r EXCEPT !.Value = [Name |-> v.Name, Type |-> v.Type,
                                           BinaryValue |-> <<>>]] IN
         IF v.Mode = "Hexadecimal" THEN Go(c, Typed, "Hexadecimal", v.ReadHead)
         ELSE IF v.Mode = "String" THEN EnterString(s, c, Typed, v.ReadHead, "ValueList")
         ELSE EnterString(s, c, Typed, v.ReadHead, "MultiSzFirst")

AfterValueName(s, c, r, Name, p) ==
    AfterNameRead(s, c, r,
        ReadValueType(s, ReadValueMode(s, ExpectValueNameSeparator(s,
            StartValue([Result |-> "S_OK", ReadHead |-> p, Name |-> Name])))))

\* the first loop of RegListToInternal: one line break removed
LineBreaksIteration(s, c, r) ==
    IF StartsWithAt(s, r.ReadHead + 2, <<13, 10>>) THEN Go(c, r, "LineBreaks", r.ReadHead + 2)
    ELSE KeyListStart(s, c, r, r.ReadHead + 2)

\* the do loop of RegListToInternal up to the call of ValueListToInternal
KeyListIteration(s, c, r) ==
    LET p == r.ReadHead
        EndKeyPos == Find(s, KeyClosingAtEOL, p + 1)
        KeyPath == SubSeq(s, p + 1, EndKeyPos - 1)
        f == TopCall(c)
    IN  IF s[p] # KeyOpening \/ EndKeyPos = 0 THEN Fail(c, r, "E_UNEXPECTED")
        ELSE IF NotASubKey(KeyPath, f.PathPrefix) THEN Returning(KeyListReturn(s, c, r, p))
        ELSE Go(WithTopCall(c, [f EXCEPT !.KeyPath = KeyPath, !.HasKey = TRUE,
                                   !.NewKey = [Name |-> KeyNameOf(KeyPath, f.PathPrefix),
                                               Values |-> <<>>, Subkeys |-> <<>>]]),
                r, "ValueList", EndKeyPos + 1 + Len(NewLines))

\* the do loop of ValueListToInternal up to the loop that reads the name or the data
ValueListIteration(s, c, r) ==
    LET p == r.ReadHead IN
    IF p > Len(s) THEN Returning(ValueListReturn(s, c, r, p))
    ELSE IF StartsWithAt(s, p, NewLines)
    THEN IF StartsWithAt(s, p + Len(NewLines), NewLines)
         THEN Go(c, r, "BlankLines", p + Len(NewLines))
         ELSE Returning(ValueListReturn(s, c, r, p + Len(NewLines)))
    ELSE IF StartsWithAt(s, p, DefaultValue)
    THEN Returning(AfterValueName(s, c, r, <<>>, p + Len(DefaultValue)))
    ELSE IF CharAt(s, p, StringDelimiter)
    THEN Go(c, [r EXCEPT !.Stream = <<>>], "ValueName", p + 1)
    ELSE Fail(c, r, "E_UNEXPECTED")

\* the loop of ValueListToInternal over the line breaks after the first
BlankLinesIteration(s, c, r) ==
    LET p == r.ReadHead + Len(NewLines) IN
    IF StartsWithAt(s, p, NewLines) THEN Go(c, r, "BlankLines", p)
    ELSE Returning(ValueListReturn(s, c, r, p))

\* the loop of ReadNameOfRegistryValue
ValueNameIteration(s, c, r) ==
    LET k == r.ReadHead + r.ClosingQuotePos IN
    IF k > Len(s) THEN Fail(c, r, "E_UNEXPECTED")
    ELSE IF s[k] = StringDelimiter THEN Returning(AfterValueName(s, c, r, r.Stream, k + 1))
    ELSE IF k + 1 > Len(s) THEN Fail(c, r, "E_UNEXPECTED")
    ELSE IF s[k] = StringDelimiterEscape
    THEN [Calls |-> c, Reader |-> [r EXCEPT !.Stream = Append(@, s[k + 1]),
                                            !.ClosingQuotePos = @ + 2, !.Returned = FALSE]]
    ELSE IF s[k] = 13 /\ s[k + 1] = 10
    THEN [Calls |-> c, Reader |-> [r EXCEPT !.ClosingQuotePos = @ + 1, !.Returned = FALSE]]
    ELSE [Calls |-> c, Reader |-> [r EXCEPT !.Stream = Append(@, s[k]),
                                            !.ClosingQuotePos = @ + 1, !.Returned = FALSE]]

\* ReadString after its loop, and what its caller does with the string
AfterString(s, c, r, p) ==
    LET BinaryValue == (IF r.Caller = "MultiSz" THEN r.Value.BinaryValue ELSE <<>>)
                       \o ToBytes(Append(r.Stream, 0))
    IN  IF r.Caller # "ValueList"
        THEN Go(c, [r EXCEPT !.Value.BinaryValue = BinaryValue, !.Stream = <<>>], "MultiSz", p)
        ELSE IF StartsWithAt(s, p, NewLines)
        THEN Emplace(c, r, [r.Value EXCEPT !.BinaryValue = BinaryValue], p + Len(NewLines))
        ELSE Fail(c, r, "E_UNEXPECTED")

\* the loop of ReadString
StringIteration(s, c, r) ==
    LET k == r.ReadHead + r.ClosingQuotePos IN
    IF k > Len(s) THEN Fail(c, r, "E_UNEXPECTED")
    ELSE IF s[k] = StringDelimiter THEN Returning(AfterString(s, c, r, k + 1))
    ELSE IF k + 1 > Len(s) THEN Fail(c, r, "E_UNEXPECTED")
    ELSE IF s[k] = StringDelimiterEscape
    THEN [Calls |-> c, Reader |-> [r EXCEPT !.Stream = Append(@, s[k + 1]),
                                            !.ClosingQuotePos = @ + 2, !.Returned = FALSE]]
    ELSE IF s[k] = 13 /\ s[k + 1] = 10
    THEN [Calls |-> c, Reader |-> [r EXCEPT !.ClosingQuotePos = @ + 1, !.Returned = FALSE]]
    ELSE [Calls |-> c, Reader |-> [r EXCEPT !.Stream = Append(@, s[k]),
                                            !.ClosingQuotePos = @ + 1, !.Returned = FALSE]]

\* the loop of ReadHexadecimalData
HexadecimalIteration(s, c, r) ==
    LET p == r.ReadHead IN
    IF p > Len(s) THEN Fail(c, r, "E_UNEXPECTED")
    ELSE IF StartsWithAt(s, p, NewLines)
    THEN Returning(Emplace(c, r, r.Value, p + Len(NewLines)))
    ELSE IF CharAt(s, p, HexByteSeparator) THEN Go(c, r, "Hexadecimal", p + 1)
    ELSE IF StartsWithAt(s, p, EscapedNewLine)
    THEN IF CharAt(s, p + Len(EscapedNewLine), LeadingSpace)
         THEN Go(c, [r EXCEPT !.Then = "Hexadecimal"], "LeadingSpaces", p + Len(EscapedNewLine))
         ELSE Go(c, r, "Hexadecimal", p + Len(EscapedNewLine))
    ELSE IF p + 1 <= Len(s) /\ IsXDigit(s[p]) /\ IsXDigit(s[p + 1])
    THEN Go(c, [r EXCEPT !.Value.BinaryValue =
                             Append(@, HexToNumber(<<s[p], s[p + 1]>>) % 256)],
            "Hexadecimal", p + 2)
    ELSE Fail(c, r, "E_UNEXPECTED")

\* ReadMultiSzData after the loops over the continuations: the next string
AfterContinuation(s, c, r, p) ==
    IF StartsWithAt(s, p, EscapedNewLine) THEN Go(c, r, "EscapedNewLines", p)
    ELSE EnterString(s, c, r, p, "MultiSz")

\* the loops over the leading spaces of a continuation line
LeadingSpacesIteration(s, c, r) ==
    LET p == r.ReadHead + 1 IN
    IF CharAt(s, p, LeadingSpace) THEN Go(c, r, "LeadingSpaces", p)
    ELSE IF r.Then = "Hexadecimal" THEN Go(c, r, "Hexadecimal", p)
    ELSE AfterContinuation(s, c, r, p)

\* the loop of ReadMultiSzData over the escaped new lines after a separator
EscapedNewLinesIteration(s, c, r) ==
    LET p == r.ReadHead + Len(EscapedNewLine) IN
    IF CharAt(s, p, LeadingSpace) THEN Go(c, [r EXCEPT !.Then = "MultiSz"], "LeadingSpaces", p)
    ELSE AfterContinuation(s, c, r, p)

\* the while (TRUE) loop of ReadMultiSzData
MultiSzIteration(s, c, r) ==
    LET p == r.ReadHead IN
    IF StartsWithAt(s, p, NewLines)
    THEN Returning(Emplace(c, r, r.Value, p + Len(NewLines)))
    ELSE IF CharAt(s, p, MultiSzSeparator)
    THEN AfterContinuation(s, c, r, p + 1)
    ELSE EnterString(s, c, r, p, "MultiSz")

\* the trees whose files are read in steps: every form of value, names and
\* strings with a quote, a backslash and a line break, bytes and strings on
\* two lines, keys three deep
StepValues ==
    <<[Name |-> <<>>, Type |-> REG_SZ, BinaryValue |-> ToBytes(<<97, 34, 10, 0>>)],
      [Name |-> <<110, 92, 10>>, Type |-> REG_DWORD, BinaryValue |-> <<42, 0, 0, 0>>],
      [Name |-> <<113>>, Type |-> REG_QWORD, BinaryValue |-> <<1, 2, 3, 4, 5, 6, 7, 8>>],
      [Name |-> <<98>>, Type |-> REG_BINARY, BinaryValue |-> [i \in 1..26 |-> i]],
      [Name |-> <<101>>, Type |-> REG_EXPAND_SZ, BinaryValue |-> ToBytes(<<37, 0>>)]>>
LongStrings ==
    [Name |-> <<109>>, Type |-> REG_MULTI_SZ,
     BinaryValue |-> ToBytes([i \in 1..90 |-> IF i % 9 = 0 THEN 0 ELSE 65])]
ShortStrings ==
    [Name |-> <<109>>, Type |-> REG_MULTI_SZ, BinaryValue |-> ToBytes(<<65, 0, 66, 0>>)]
StepSubkeys ==
    <<[Name |-> <<66>>, Values |-> <<>>,
       Subkeys |-> <<[Name |-> <<67>>, Values |-> <<NoValue>>, Subkeys |-> <<>>]>>],
      [Name |-> <<68>>, Values |-> <<>>, Subkeys |-> <<>>]>>
StepTree(Strings) ==
    [Name |-> <<65>>, Values |-> Append(StepValues, Strings), Subkeys |-> StepSubkeys]
StepRenderings ==
    {InternalToRegfile(StepTree(LongStrings), TRUE).Text,
     InternalToRegfile(StepTree(ShortStrings), FALSE).Text}

\* the renderings, the renderings with every blank line doubled, with the
\* spaces of the continuation lines taken out, and every rendering cut short
\* anywhere after the preamble
MaxFileLen == 400
StepFiles ==
    {SubSeq(f, 1, IF n < Len(f) THEN n ELSE Len(f)) :
         f \in StepRenderings, n \in (Len(Preamble) + 1)..MaxFileLen}
    \cup {GlobalStringSubstitute(f, NewLines \o NewLines, NewLines \o NewLines \o NewLines) :
              f \in StepRenderings}
    \cup {GlobalStringSubstitute(f, <<LeadingSpace>>, <<>>) : f \in StepRenderings}

\* RegfileToInternal has checked the preamble and calls RegListToInternal
FirstCall(s) == EnterKeyList(s, <<CallOf(<<>>)>>, NoReader, Len(Preamble) + 1)

InitSteps ==
    /\ pc = "steps"
    /\ FileContents \in StepFiles
    /\ NestedCalls = FirstCall(FileContents).Calls
    /\ Reader = FirstCall(FileContents).Reader
    /\ EnableExtensions = FALSE
    /\ Result = "E_FAIL"
    /\ RegKey = EmptyKey
    /\ Original = EmptyKey
    /\ FirstContents = <<>>
    /\ Headers = <<>>
    /\ Source = "steps"
    /\ KeysInFile = <<>>
    /\ Unparsed = 0
    /\ NoInvocation
    /\ NoValueLine

\* what RegListToInternal has given RegfileToInternal at its return
ListOf(r) == [Result |-> r.Result, ReadHead |-> r.ReadHead, RegKeys |-> r.RegKeys]

\* the iterations a run is followed for
MaxIterations == 500

\* the step to m, one more iteration; the return of RegListToInternal is
\* followed by the checks of RegfileToInternal
Take(m) ==
    /\ pc = "steps"
    /\ Reader.Iterations < MaxIterations
    /\ NestedCalls' = m.Calls
    /\ Reader' = [m.Reader EXCEPT !.Iterations = Reader.Iterations + 1]
    /\ IF m.Reader.At = "Returned"
       THEN LET done == CheckKeysInFile(FileContents, RegKey, ListOf(m.Reader)) IN
            /\ pc' = "stepped"
            /\ Result' = done.Result
            /\ RegKey' = done.RegKey
            /\ KeysInFile' = done.KeysInFile
            /\ Unparsed' = done.Unparsed
       ELSE UNCHANGED <<pc, Result, RegKey, KeysInFile, Unparsed>>
    /\ UNCHANGED <<EnableExtensions, FileContents, Original, FirstContents, Headers, Source,
                   mainVars, valueVars>>

IterateLineBreaks ==
    Reader.At = "LineBreaks" /\ Take(LineBreaksIteration(FileContents, NestedCalls, Reader))
IterateKeyList ==
    Reader.At = "KeyList" /\ Take(KeyListIteration(FileContents, NestedCalls, Reader))
IterateValueList ==
    Reader.At = "ValueList" /\ Take(ValueListIteration(FileContents, NestedCalls, Reader))
IterateBlankLines ==
    Reader.At = "BlankLines" /\ Take(BlankLinesIteration(FileContents, NestedCalls, Reader))
IterateValueName ==
    Reader.At = "ValueName" /\ Take(ValueNameIteration(FileContents, NestedCalls, Reader))
IterateString ==
    Reader.At = "String" /\ Take(StringIteration(FileContents, NestedCalls, Reader))
IterateHexadecimal ==
    Reader.At = "Hexadecimal" /\ Take(HexadecimalIteration(FileContents, NestedCalls, Reader))
IterateLeadingSpaces ==
    Reader.At = "LeadingSpaces" /\ Take(LeadingSpacesIteration(FileContents, NestedCalls, Reader))
IterateEscapedNewLines ==
    Reader.At = "EscapedNewLines"
    /\ Take(EscapedNewLinesIteration(FileContents, NestedCalls, Reader))
IterateMultiSz ==
    Reader.At = "MultiSz" /\ Take(MultiSzIteration(FileContents, NestedCalls, Reader))

NextSteps ==
    \/ IterateLineBreaks
    \/ IterateKeyList
    \/ IterateValueList
    \/ IterateBlankLines
    \/ IterateValueName
    \/ IterateString
    \/ IterateHexadecimal
    \/ IterateLeadingSpaces
    \/ IterateEscapedNewLines
    \/ IterateMultiSz

SpecSteps == InitSteps /\ [][NextSteps]_vars

\* the code unit the loop under way looks at
Cursor == Reader.ReadHead + Reader.ClosingQuotePos

\* the keys call i and the calls inside it have read so far, the key of the
\* iteration under way included
RECURSIVE KeysSoFar(_, _)
KeysSoFar(c, i) ==
    IF i > Len(c) THEN <<>>
    ELSE IF c[i].HasKey
    THEN Append(c[i].RegKeys, [c[i].NewKey EXCEPT !.Subkeys = KeysSoFar(c, i + 1)])
    ELSE c[i].RegKeys

\* how many keys deep a list of keys is
RECURSIVE DepthOfKeys(_)
DepthOfKeys(keys) ==
    IF keys = <<>> THEN 0
    ELSE LET depths == {DepthOfKeys(keys[i].Subkeys) : i \in 1..Len(keys)}
         IN  1 + CHOOSE d \in depths : \A e \in depths : e <= d

\* the loops of the parser
Loops == {"LineBreaks", "KeyList", "ValueList", "BlankLines", "ValueName", "String",
          "Hexadecimal", "LeadingSpaces", "EscapedNewLines", "MultiSz"}

\* RegListToInternal has returned to RegfileToInternal
Returned == Reader.At = "Returned"

\* the parser run at once on the file
AtOnce == ParseFileContents(FileContents, EmptyKey)

\* what every iteration makes greater: the cursor, less one for every call
\* of RegListToInternal under way
Progress == Cursor - Len(NestedCalls)

\* C25: every iteration of every loop moves the cursor forward by at least
\* one code unit or takes a function to its return; the parser terminates on
\* every input: every iteration, the returns included, makes Progress
\* greater, the cursor never passes the end of the input, and a loop under
\* way always has its next iteration, so RegListToInternal comes to its
\* return, with the HRESULT and the tree of the parser run at once; and the
\* calls of RegListToInternal under way are never more than one more than
\* the depth of the keys read so far.
C25_ParserTerminates ==
    /\ [][Cursor' > Cursor \/ Reader'.Returned]_vars
    /\ [][Progress' > Progress]_vars
    /\ [](Cursor <= Len(FileContents) + 1)
    /\ [](Returned \/ (Reader.At \in Loops /\ Reader.Iterations < MaxIterations))
    /\ [](Len(NestedCalls) <= DepthOfKeys(KeysSoFar(NestedCalls, 1)) + 1)
    /\ [](Returned => /\ Result = AtOnce.Result
                      /\ RegKey = AtOnce.RegKey
                      /\ SUCCEEDED(Result) => Cursor = Len(FileContents) + 1)

\* a whole file was read: three calls were under way at once, and the
\* strings on two lines were read
C25_Witness ==
    /\ Returned
    /\ Source = "steps"
    /\ SUCCEEDED(Result)
    /\ DepthOfKeys(<<RegKey>>) = 3
    /\ \E i \in 1..Len(RegKey.Values) : RegKey.Values[i] = LongStrings

\* four calls of RegListToInternal are under way, for keys three deep
C25_FourCalls ==
    /\ Len(NestedCalls) = 4
    /\ Reader.At = "KeyList"
    /\ DepthOfKeys(KeysSoFar(NestedCalls, 1)) = 3

\* a file cut short is refused
C25_CutShortRefused == Returned /\ Source = "steps" /\ FAILED(Result) /\ NestedCalls = <<>>

(***************************************************************************)
(* Read before write in wmain (C26)                                        *)
(***************************************************************************)
\* the step is a call of an output conversion function: InternalToHive,
\* InternalToRegfile or InternalToPolfile, or the default of the switch
OutputCalled == pc = "output" /\ pc' # "output"

\* what an output conversion function changes: the output file, whether it
\* was written whole, and the function pointer InternalToHive loads
outputVars == <<FileContents, WriteDone, NtSetValueKey>>

\* C26: an output conversion function is called only after the input
\* conversion function returned success; when the input format is unknown
\* or the read fails, wmain goes to Cleanup, and from there on no output
\* conversion function is called and nothing of the output is changed.
C26_ReadBeforeWrite ==
    /\ [][OutputCalled => (ReadDone /\ SUCCEEDED(Result) /\ InputFormat # "Unknown")]_vars
    /\ [][(pc = "input" /\ (InputFormat = "Unknown" \/ FAILED(Result')))
             => (pc' = "Cleanup" /\ ~ReadDone' /\ UNCHANGED <<WriteDone, NtSetValueKey>>)]_vars
    /\ [][(pc \in {"Cleanup", "done"} /\ ~ReadDone)
             => (~OutputCalled /\ pc' \in {"Cleanup", "done"} /\ UNCHANGED outputVars)]_vars
    /\ []((pc \in {"Cleanup", "done"} /\ ~ReadDone) => (~WriteDone /\ ~NtSetValueKey))

\* the read of a .reg file failed and wmain has exited with a failure
C26_Witness ==
    /\ pc = "done"
    /\ InputFormat = "Reg"
    /\ OutputFormat # "Unknown"
    /\ OutputFile # ""
    /\ ~ReadDone
    /\ FAILED(Result)
    /\ ~WriteDone

\* the output was written after a read that succeeded
C26_WrittenAfterRead == pc = "done" /\ ReadDone /\ WriteDone /\ SUCCEEDED(Result)

-----------------------------------------------------------------------------
\* Failures of NtSetValueKey and of the recursive calls of InternalToHkey
\* (InternalToHive.cpp, lines 58 to 158), under SpecMain.

RECURSIVE ApiCallsOf(_)
RECURSIVE ApiCallsOfSubkeys(_, _)

\* the registry calls InternalToHkey makes for a sub-key list, from sub-key i
\* on, in the order of lines 115 to 147: RegCreateKeyExW, then the recursion
ApiCallsOfSubkeys(Subkeys, i) ==
    IF i > Len(Subkeys) THEN <<>>
    ELSE <<"RegCreateKeyExW">> \o ApiCallsOf(Subkeys[i]) \o ApiCallsOfSubkeys(Subkeys, i + 1)

\* the registry calls InternalToHkey makes for a key when none fails: one
\* NtSetValueKey per value (lines 73 to 113), then the sub-keys
ApiCallsOf(Key) ==
    [i \in 1..Len(Key.Values) |-> "NtSetValueKey"] \o ApiCallsOfSubkeys(Key.Subkeys, 1)

\* InternalToHive called InternalToHkey on the root key
HkeyReturned == pc \in {"Cleanup", "done"} /\ HkeyCall.Made

\* during that call NtSetValueKey was loaded and one call of it failed
SetValueFailed ==
    /\ HkeyReturned
    /\ LoadNtDllFunctions(HkeyCall.Env.LoadOutcome) = "S_OK"
    /\ HkeyCall.Env.FailCall \in 1..Len(ApiCallsOf(RegKey))
    /\ ApiCallsOf(RegKey)[HkeyCall.Env.FailCall] = "NtSetValueKey"

\* the failing NtSetValueKey call is the first one of the process: the
\* pointer was loaded by the InternalToHkey call that made it
FirstSetValueFailed ==
    /\ SetValueFailed
    /\ \A i \in 1..(HkeyCall.Env.FailCall - 1) : ApiCallsOf(RegKey)[i] # "NtSetValueKey"

\* C27: when NtSetValueKey fails while the tree is written to the hive, the
\* InternalToHkey call on the root key returns a failure HRESULT, whether the
\* failing call was made for the root key or for a sub-key, and whether or
\* not the pointer was loaded during the call that failed.
C27_SetValueFailurePropagates ==
    SetValueFailed => FAILED(HkeyCall.Returned.Result)

\* C27, the case the code gets right: a failure of NtSetValueKey in a call
\* that found the pointer already loaded is a failure of that call and of
\* every enclosing call, the root call included.
C27_FailureAfterLoadPropagates ==
    (SetValueFailed /\ ~FirstSetValueFailed) =>
        /\ HkeyCall.Returned.Result = "E_FAIL"
        /\ HkeyCall.Returned.Calls = HkeyCall.Env.FailCall

\* C27, the case the code gets wrong: the failing call was made by the
\* InternalToHkey call that loaded the pointer, and the root call returns S_OK
C27_FailureSwallowed ==
    /\ FirstSetValueFailed
    /\ HkeyCall.Returned.Result = "S_OK"
    /\ HkeyCall.Returned.Failed

\* a sub-key's NtSetValueKey fails after the root key's succeeded, and the
\* root call returns the failure of the recursive call
C27_SubkeyFailureReturned ==
    /\ SetValueFailed
    /\ HkeyCall.Env.FailCall > Len(RegKey.Values)
    /\ RegKey.Values # <<>>
    /\ FAILED(HkeyCall.Returned.Result)

-----------------------------------------------------------------------------
\* The .pol file (PReg) writer, Conversions.h lines 387 to 619, and reader,
\* InternalToHive.cpp lines 222 to 432.  A .pol file is a sequence of bytes.

\* Constants::PolFiles
PolPreamble == <<80, 82, 101, 103>>
ExpectedVersion == 1
EntryOpening == 91
EntrySeparator == 59
EntryClosing == 93

\* WritePODToFile of a WCHAR: its two bytes as they lie in memory
WcharBytes(c) == <<c % 256, c \div 256>>

\* WritePODToFile of a DWORD: its four bytes as they lie in memory
DwordBytes(n) ==
    <<n % 256, (n \div 256) % 256, (n \div 65536) % 256, (n \div 16777216) % 256>>

\* WriteStringBufferToFile of a std::wstring: the bytes of its buffer
WstringBytes(s) ==
    [i \in 1..(2 * Len(s)) |->
        IF i % 2 = 1 THEN s[(i + 1) \div 2] % 256 ELSE s[i \div 2] \div 256]

\* what RenderRegistryValueToPolFormat writes when every write succeeds
PolEntry(KeyPath, v) ==
    WcharBytes(EntryOpening)
        \o WstringBytes(KeyPath \o <<0>>) \o WcharBytes(EntrySeparator)
        \o WstringBytes(v.Name \o <<0>>) \o WcharBytes(EntrySeparator)
        \o DwordBytes(v.Type) \o WcharBytes(EntrySeparator)
        \o DwordBytes(Len(v.BinaryValue)) \o WcharBytes(EntrySeparator)
        \o v.BinaryValue
        \o WcharBytes(EntryClosing)

\* lines 533 to 537: the value written for a key without values
EmptyValue == [Name |-> <<>>, Type |-> 0, BinaryValue |-> <<>>]

RECURSIVE PolEntries(_, _, _)
\* lines 545 to 553: the loop over RegKey.Values, from value i on
PolEntries(NewPath, Values, i) ==
    IF i > Len(Values) THEN <<>>
    ELSE PolEntry(NewPath, Values[i]) \o PolEntries(NewPath, Values, i + 1)

RECURSIVE RenderRegistryKeyToPolFormat(_, _)
RECURSIVE PolSubkeys(_, _, _)

\* lines 555 to 563: the loop over RegKey.Subkeys, from sub-key i on
PolSubkeys(Subkeys, NewPath, i) ==
    IF i > Len(Subkeys) THEN <<>>
    ELSE RenderRegistryKeyToPolFormat(Subkeys[i], NewPath) \o PolSubkeys(Subkeys, NewPath, i + 1)

\* RenderRegistryKeyToPolFormat(OutFileHandle, RegKey, PathSoFar); NewPath
\* (lines 521 to 529) is made as in RenderRegistryKeyToRegFormat
RenderRegistryKeyToPolFormat(Key, PathSoFar) ==
    (IF Key.Values = <<>> THEN PolEntry(NewPathOf(Key, PathSoFar), EmptyValue) ELSE <<>>)
        \o PolEntries(NewPathOf(Key, PathSoFar), Key.Values, 1)
        \o PolSubkeys(Key.Subkeys, NewPathOf(Key, PathSoFar), 1)

RECURSIVE PolTopKeys(_, _)
\* InternalToPolfile, the loop over RegKey.Subkeys: every key is rendered
\* with an empty PathSoFar
PolTopKeys(Subkeys, i) ==
    IF i > Len(Subkeys) THEN <<>>
    ELSE RenderRegistryKeyToPolFormat(Subkeys[i], <<>>) \o PolTopKeys(Subkeys, i + 1)

\* InternalToPolfile(RegKey, OutputFilePath), the file opened with the
\* outcome Opened and every write succeeding
InternalToPolfile(Key, Opened) ==
    IF FAILED(Opened) THEN [Result |-> Opened, Text |-> <<>>]
    ELSE [Result |-> "S_OK",
          Text |-> PolPreamble \o DwordBytes(ExpectedVersion) \o PolTopKeys(Key.Subkeys, 1)]

\* the bytes of s from position p on
Rest(s, p) == SubSeq(s, p, Len(s))

\* ExpectAndConsumePODAtReadHead, RetrieveAndConsumePODAtReadHead: the view
\* holds at least n bytes from p on
HasBytes(s, p, n) == Len(s) - p + 1 >= n

\* the WCHAR of index k of GetWstringViewFromStringView(ReadHead)
WcharAt(s, p, k) == s[p + 2 * k] + 256 * s[p + 2 * k + 1]

\* the size of GetWstringViewFromStringView(ReadHead): a trailing byte is cut
WcharCount(s, p) == (Len(s) - p + 1) \div 2

\* the DWORD whose bytes lie at p
DwordAt(s, p) == s[p] + 256 * s[p + 1] + 65536 * s[p + 2] + 16777216 * s[p + 3]

npos == -1

\* ws.find(c): the index of the first WCHAR equal to c, or npos
FindWchar(s, p, c) ==
    LET Found == {k \in 0..(WcharCount(s, p) - 1) : WcharAt(s, p, k) = c}
    IN  IF Found = {} THEN npos ELSE CHOOSE k \in Found : \A j \in Found : k <= j

\* ws.substr(0, n)
Wchars(s, p, n) == [k \in 1..n |-> WcharAt(s, p, k - 1)]

\* lines 240 to 258 and 263 to 281: a null-terminated name up to the separator
ReadPolName(s, p) ==
    LET SemiColonPosition == FindWchar(s, p, EntrySeparator)
        NullTerminated == Wchars(s, p, SemiColonPosition)
    IN  IF SemiColonPosition = npos THEN [Result |-> "E_UNEXPECTED", ReadHead |-> p, Name |-> <<>>]
        ELSE IF NullTerminated = <<>> \/ NullTerminated[Len(NullTerminated)] # 0
        THEN [Result |-> "E_UNEXPECTED", ReadHead |-> p, Name |-> <<>>]
        ELSE [Result |-> "S_OK", ReadHead |-> p + 2 * (SemiColonPosition + 1),
              Name |-> SubSeq(NullTerminated, 1, Len(NullTerminated) - 1)]

\* ExpectAndConsumePODAtReadHead of a WCHAR
ExpectWchar(s, p, c) == HasBytes(s, p, 2) /\ WcharAt(s, p, 0) = c

PregFailure(p) == [Result |-> "E_UNEXPECTED", ReadHead |-> p, Key |-> Leaf(<<>>)]

\* lines 284 to 340: the type, the size, the data and the closing bracket,
\* from the read head p on; the value is kept unless its name is empty and
\* its type 0
ReadPolData(s, p, KeyName, ValueName) ==
    IF ~HasBytes(s, p, 4) THEN PregFailure(p)
    ELSE IF ~ExpectWchar(s, p + 4, EntrySeparator) THEN PregFailure(p + 4)
    ELSE IF ~HasBytes(s, p + 6, 4) THEN PregFailure(p + 6)
    ELSE IF ~ExpectWchar(s, p + 10, EntrySeparator) THEN PregFailure(p + 10)
    ELSE LET Type == DwordAt(s, p)
             ValueSize == DwordAt(s, p + 6)
             Data == p + 12
         IN  IF ValueSize # 0 /\ ~HasBytes(s, Data, ValueSize) THEN PregFailure(Data)
             ELSE IF ~ExpectWchar(s, Data + ValueSize, EntryClosing)
             THEN PregFailure(Data + ValueSize)
             ELSE [Result |-> "S_OK", ReadHead |-> Data + ValueSize + 2,
                   Key |-> [Name |-> KeyName,
                            Values |-> IF ValueName # <<>> \/ Type # 0
                                       THEN <<[Name |-> ValueName, Type |-> Type,
                                               BinaryValue |-> SubSeq(s, Data, Data + ValueSize - 1)]>>
                                       ELSE <<>>,
                            Subkeys |-> <<>>]]

\* ReadSinglePregEntry(ReadHead, Key)
ReadSinglePregEntry(s, p) ==
    IF ~ExpectWchar(s, p, EntryOpening) THEN PregFailure(p)
    ELSE LET k == ReadPolName(s, p + 2)
         IN  IF FAILED(k.Result) THEN PregFailure(k.ReadHead)
             ELSE LET v == ReadPolName(s, k.ReadHead)
                  IN  IF FAILED(v.Result) THEN PregFailure(v.ReadHead)
                      ELSE ReadPolData(s, v.ReadHead, k.Name, v.Name)

RECURSIVE ReadPregEntries(_, _, _)
\* lines 384 to 394: while (!ReadHead.empty())
ReadPregEntries(s, p, TempSubKeys) ==
    IF p > Len(s) THEN [Result |-> "S_OK", TempSubKeys |-> TempSubKeys]
    ELSE LET e == ReadSinglePregEntry(s, p)
         IN  IF FAILED(e.Result) THEN [Result |-> e.Result, TempSubKeys |-> TempSubKeys]
             ELSE ReadPregEntries(s, e.ReadHead, Append(TempSubKeys, e.Key))

RECURSIVE MergeAdjacent(_, _, _)
\* lines 407 to 426: adjacent entries of the same key are merged
MergeAdjacent(TempSubKeys, i, Subkeys) ==
    IF i > Len(TempSubKeys) THEN Subkeys
    ELSE LET Last == Subkeys[Len(Subkeys)]
             It == TempSubKeys[i]
         IN  MergeAdjacent(TempSubKeys, i + 1,
                 IF It.Name = Last.Name
                 THEN [Subkeys EXCEPT ![Len(Subkeys)] =
                          [Name |-> Last.Name, Values |-> Last.Values \o It.Values,
                           Subkeys |-> Last.Subkeys \o It.Subkeys]]
                 ELSE Append(Subkeys, It))

\* PolfileToInternal(PolFilePath, RootName, RegKey), the file read whole
PolfileToInternal(s, Root) ==
    IF ~(Len(s) >= 4 /\ SubSeq(s, 1, 4) = PolPreamble)
    THEN [Result |-> "E_UNEXPECTED", RegKey |-> Leaf(<<>>)]
    ELSE IF ~(HasBytes(s, 5, 4) /\ DwordAt(s, 5) = ExpectedVersion)
    THEN [Result |-> "E_UNEXPECTED", RegKey |-> Leaf(<<>>)]
    ELSE LET r == ReadPregEntries(s, 9, <<>>)
         IN  IF FAILED(r.Result) THEN [Result |-> r.Result, RegKey |-> Leaf(<<>>)]
             ELSE IF r.TempSubKeys = <<>> THEN [Result |-> "S_OK", RegKey |-> Leaf(Root)]
             ELSE [Result |-> "S_OK",
                   RegKey |-> [Name |-> Root, Values |-> <<>>,
                               Subkeys |-> MergeAdjacent(r.TempSubKeys, 2,
                                                         <<r.TempSubKeys[1]>>)]]

-----------------------------------------------------------------------------
\* A tree written to a .pol file and read back.

MaxPolValues == 2

\* values of a key: a DWORD, a string, data holding the bytes of ';' and ']',
\* a default value that is a string, and values of type REG_NONE, named or
\* not, with data or without
PolValues ==
    {GoodValue,
     [Name |-> <<119>>, Type |-> REG_SZ, BinaryValue |-> <<97, 0, 0, 0>>],
     [Name |-> <<120>>, Type |-> REG_BINARY, BinaryValue |-> <<59, 0, 93>>],
     [Name |-> <<>>, Type |-> REG_SZ, BinaryValue |-> <<0, 0>>],
     [Name |-> <<121>>, Type |-> REG_NONE, BinaryValue |-> <<>>],
     [Name |-> <<>>, Type |-> REG_NONE, BinaryValue |-> <<>>],
     [Name |-> <<>>, Type |-> REG_NONE, BinaryValue |-> <<7>>]}

\* value lists of a key: the names are distinct
PolValueLists ==
    {vs \in UNION {[1..n -> PolValues] : n \in 0..MaxPolValues} :
        \A i, j \in 1..Len(vs) : i # j => vs[i].Name # vs[j].Name}

FewValueLists == {<<>>, <<GoodValue>>, <<GoodValue, [Name |-> <<>>, Type |-> REG_SZ, BinaryValue |-> <<0, 0>>]>>}

\* the trees written: a root named as PolfileToInternal names it, with or
\* without values of its own, over no key, one key, a key and its sub-key,
\* or two keys
PolTrees ==
    {[Name |-> ExportKeyPath, Values |-> rv, Subkeys |-> ks] :
        rv \in {<<>>, <<GoodValue>>},
        ks \in {<<>>}
            \cup {<<[Name |-> <<65>>, Values |-> a, Subkeys |-> <<>>]>> : a \in PolValueLists}
            \cup {<<[Name |-> <<65>>, Values |-> a,
                     Subkeys |-> <<[Name |-> <<66>>, Values |-> b, Subkeys |-> <<>>]>>]>> :
                        a \in PolValueLists, b \in FewValueLists}
            \cup {<<[Name |-> <<65>>, Values |-> a, Subkeys |-> <<>>],
                    [Name |-> <<67>>, Values |-> b, Subkeys |-> <<>>]>> :
                        a \in PolValueLists, b \in FewValueLists}}

InitPol ==
    /\ pc = "tree"
    /\ RegKey \in PolTrees
    /\ Original = RegKey
    /\ Result = "E_FAIL"
    /\ EnableExtensions = FALSE
    /\ FileContents = <<>>
    /\ FirstContents = <<>>
    /\ Headers = <<>>
    /\ Source = "pol"
    /\ KeysInFile = <<>>
    /\ Unparsed = 0
    /\ NoInvocation
    /\ NoValueLine
    /\ NoSteps

polVars == <<EnableExtensions, Original, FirstContents, Headers, Source, Unparsed,
             mainVars, valueVars, stepVars>>

\* InternalToPolfile(RegKey, OutputFilePath)
WritePolfile ==
    /\ pc = "tree"
    /\ \E Opened \in {"S_OK", "E_ACCESSDENIED"} :
          LET w == InternalToPolfile(RegKey, Opened)
          IN  /\ Result' = w.Result
              /\ FileContents' = w.Text
              /\ pc' = IF SUCCEEDED(w.Result) THEN "polfile" ELSE "Cleanup"
    /\ UNCHANGED <<RegKey, KeysInFile, polVars>>

\* PolfileToInternal(PolFilePath, RootName, RegKey) into a new tree; the
\* entries read are kept, as TempSubKeys holds them
ReadPolfile ==
    /\ pc = "polfile"
    /\ LET r == PolfileToInternal(FileContents, ExportKeyPath)
       IN  /\ Result' = r.Result
           /\ RegKey' = r.RegKey
           /\ KeysInFile' = ReadPregEntries(FileContents, 9, <<>>).TempSubKeys
    /\ pc' = "polread"
    /\ UNCHANGED <<FileContents, polVars>>

NextPol == WritePolfile \/ ReadPolfile

SpecPol == InitPol /\ [][NextPol]_vars

RECURSIVE KeyEntries(_, _)
\* the keys of a tree, each with its full path and its list of values
KeyEntries(Key, PathSoFar) ==
    {[Path |-> NewPathOf(Key, PathSoFar), Values |-> Key.Values]}
        \cup UNION {KeyEntries(Key.Subkeys[i], NewPathOf(Key, PathSoFar)) :
                        i \in 1..Len(Key.Subkeys)}

\* the keys of a tree below its root
KeysBelowRoot(Key) == KeyEntries(Key, <<>>) \ {[Path |-> Key.Name, Values |-> Key.Values]}

\* the tree was written to a .pol file and read back with success
PolReadBack == pc = "polread" /\ SUCCEEDED(Result)

\* the values ReadSinglePregEntry keeps: all but those of empty name and type 0
RECURSIVE KeptValues(_)
KeptValues(Values) ==
    IF Values = <<>> THEN <<>>
    ELSE (IF Values[1].Name # <<>> \/ Values[1].Type # 0 THEN <<Values[1]>> ELSE <<>>)
            \o KeptValues(Tail(Values))

\* the entries of the file that are placeholders: no name, type 0, no data
Placeholders(Path) ==
    {i \in 1..Len(KeysInFile) :
        /\ NewPathOf(KeysInFile[i], ExportKeyPath) = Path
        /\ KeysInFile[i].Values = <<>>}

\* C28: a tree written to a .pol file and read back keeps, for every key
\* path, the full list of the values of the key (name, type, data, order):
\* no value of the original tree is dropped; a key without values is written
\* as one placeholder entry and read back without values; the entries of a
\* key are merged into one key.
C28_PolValuesKept ==
    PolReadBack =>
        /\ \A e \in KeyEntries(Original, <<>>) : e \in KeyEntries(RegKey, <<>>)
        /\ \A i, j \in 1..Len(RegKey.Subkeys) :
              RegKey.Subkeys[i].Name = RegKey.Subkeys[j].Name => i = j
        /\ \A e \in KeysBelowRoot(Original) :
              e.Values = <<>> => Cardinality(Placeholders(e.Path)) = 1

\* C28, what the code does: every key below the root is read back under its
\* path, once, with its values in order less those of empty name and type
\* 0; the values of the root key are not written; a key without values is
\* one placeholder entry in the file
C28_NamedValuesBelowRootKept ==
    PolReadBack =>
        /\ Len(FileContents) >= 8
        /\ RegKey.Name = ExportKeyPath /\ RegKey.Values = <<>>
        /\ KeysBelowRoot(RegKey) =
              {[Path |-> e.Path, Values |-> KeptValues(e.Values)] : e \in KeysBelowRoot(Original)}
        /\ Len(RegKey.Subkeys) = Cardinality(KeysBelowRoot(Original))
        /\ \A k \in 1..Len(RegKey.Subkeys) : RegKey.Subkeys[k].Subkeys = <<>>
        /\ \A e \in KeysBelowRoot(Original) :
              Cardinality(Placeholders(e.Path)) =
                  IF e.Values = <<>> THEN 1 ELSE Len(e.Values) - Len(KeptValues(e.Values))

\* the values of the root key are lost
C28_RootValuesDropped ==
    /\ PolReadBack
    /\ Original.Values # <<>>
    /\ RegKey.Values = <<>>

\* a default value of type REG_NONE that holds data is lost
C28_UnnamedNoneValueDropped ==
    /\ PolReadBack
    /\ Original.Values = <<>>
    /\ \E e \in KeysBelowRoot(Original) :
          /\ \E i \in 1..Len(e.Values) :
                e.Values[i] = [Name |-> <<>>, Type |-> REG_NONE, BinaryValue |-> <<7>>]
          /\ [Path |-> e.Path, Values |-> KeptValues(e.Values)] \in KeysBelowRoot(RegKey)
          /\ KeptValues(e.Values) # e.Values

\* a tree without any of the two is read back as it was, paths flattened
C28_KeptWhole ==
    /\ PolReadBack
    /\ Len(Original.Subkeys) = 2
    /\ KeyEntries(RegKey, <<>>) = KeyEntries(Original, <<>>)
    /\ Cardinality(KeyEntries(Original, <<>>)) = 3
    /\ \E e \in KeyEntries(Original, <<>>) : Len(e.Values) = 2

-----------------------------------------------------------------------------
\* SpecWide: values whose name brings the first line of a hexadecimal
\* rendering up to the wrapping limit and past it.

MinWideName == 32
MaxWideName == 36

\* names of backslashes, which are written twice, alone or before a letter:
\* the name, its quotes and the = are 67 to 76 characters long
WideNames ==
    {[i \in 1..n |-> 92] : n \in MinWideName..MaxWideName}
        \cup {[i \in 1..n |-> 92] \o <<97>> : n \in MinWideName..MaxWideName}

\* the numbers of bytes: none, one, a few, those around one line
WideSizes == {0, 1, 2, 3, 26, 27}

\* types written hex:, hex(0):, hex(7): and hex(12c):, the data of a
\* multi-string being of odd size when there is some
WideValues ==
    {[Name |-> n, Type |-> t, BinaryValue |-> [i \in 1..k |-> (7 * i) % 256]] :
        n \in WideNames, t \in {REG_BINARY, REG_NONE, 300}, k \in WideSizes}
        \cup {[Name |-> n, Type |-> REG_MULTI_SZ, BinaryValue |-> [i \in 1..k |-> 0]] :
                n \in WideNames, k \in {0, 1, 3, 25, 27}}

InitWide ==
    /\ pc = "value"
    /\ Value \in WideValues
    /\ EnableExtensions \in BOOLEAN
    /\ Line = <<>>
    /\ Parsed = NotParsed
    /\ Rendering = <<>>
    /\ Markers = 0
    /\ Result = "S_OK"
    /\ RegKey = EmptyKey
    /\ Original = EmptyKey
    /\ FileContents = <<>>
    /\ FirstContents = <<>>
    /\ Headers = <<>>
    /\ Source = "written"
    /\ KeysInFile = <<>>
    /\ Unparsed = 0
    /\ NoInvocation
    /\ NoSteps

\* the line is rendered and looked at, not read back
NextWide == RenderValue

SpecWide == InitWide /\ [][NextWide]_vars

\* the first position of the separator of type and data after the name
TokenEnd ==
    CHOOSE p \in (Len(RenderValueName(Value.Name)) + 1)..Len(Line) :
        /\ Line[p] = ValueTypeAndDataSeparator
        /\ \A q \in (Len(RenderValueName(Value.Name)) + 1)..(p - 1) :
              Line[q] # ValueTypeAndDataSeparator

\* the longest line the claim allows: HexWrappingLimit
LongestPrefix == HexWrappingLimit - 4

\* C29: in a hexadecimal rendering whose name, = and hex: or hex(T): token
\* are at most 76 characters long, no character other than those of a CRLF
\* stands past column 80 of its line, the backslash of a continuation
\* included, whatever the number of bytes.
C29_HexLineBound ==
    (Rendered /\ IsHexForm /\ TokenEnd <= LongestPrefix) =>
        \A p \in 1..Len(Line) : Line[p] \notin {13, 10} => ColumnAt(p) <= HexWrappingLimit

\* a prefix of 76 characters, one byte, its separator and the backslash make a
\* line of 80 characters, and further lines follow
C29_Witness ==
    /\ Rendered /\ IsHexForm
    /\ TokenEnd = LongestPrefix
    /\ Len(Line) > HexWrappingLimit
    /\ Line[HexWrappingLimit] = 92
    /\ ColumnAt(HexWrappingLimit) = HexWrappingLimit
    /\ Cardinality(Backslashes) >= 2

\* a prefix of 77 characters makes a first line of 81
C29_LongerPrefixPassesLimit ==
    /\ Rendered /\ IsHexForm
    /\ TokenEnd = LongestPrefix + 1
    /\ Len(Line) > HexWrappingLimit + 1
    /\ Line[HexWrappingLimit + 1] = 92
    /\ ColumnAt(HexWrappingLimit + 1) = HexWrappingLimit + 1

-----------------------------------------------------------------------------
\* Continuations of the hexadecimal and of the string-list renderings, under
\* SpecValue.

\* the position of the first character from p on that is not a leading space
NextNonSpace(p) ==
    CHOOSE q \in p..Len(Line) :
        /\ Line[q] # LeadingSpace
        /\ \A r \in p..(q - 1) : Line[r] = LeadingSpace

\* a digit std::hex writes
IsLowerHexDigit(c) == \E i \in 1..16 : LowerHexDigits[i] = c

\* the line ends with CRLF
EndsWithNewLines == Len(Line) >= 2 /\ SubSeq(Line, Len(Line) - 1, Len(Line)) = NewLines

\* C30: a hexadecimal or string-list rendering ends with CRLF; every
\* backslash of a hexadecimal rendering is a continuation marker that follows
\* a separator and is followed by CRLF, 2 spaces and a byte pair; every
\* continuation marker of a string list (a backslash and CRLF after a
\* separator) is followed by spaces and a quoted string; so no marker is the last thing before the final CRLF and no
\* continuation line is empty.
C30_NoDanglingContinuation ==
    /\ (Rendered /\ IsHexForm) =>
          /\ EndsWithNewLines
          /\ Line[Len(Line) - 2] # 92
          /\ Line[Len(Line) - 2] # HexByteSeparator
          /\ \A p \in Backslashes :
                /\ Line[p - 1] = HexByteSeparator
                /\ p + 4 + HexNewLineLeadingSpaces <= Len(Line) - 2
                /\ SubSeq(Line, p, p + 2 + HexNewLineLeadingSpaces)
                      = EscapedNewLine \o Spaces(HexNewLineLeadingSpaces)
                /\ IsLowerHexDigit(Line[p + 3 + HexNewLineLeadingSpaces])
                /\ IsLowerHexDigit(Line[p + 4 + HexNewLineLeadingSpaces])
    /\ IsStringList =>
          /\ EndsWithNewLines
          /\ Line[Len(Line) - 2] = StringDelimiter
          /\ \A p \in Continuations :
                /\ NextNonSpace(p + 3) < Len(Line) - 2
                /\ Line[NextNonSpace(p + 3)] = StringDelimiter

\* 25 bytes under the default name: the line is wrapped after the 24th byte
\* and the last byte is alone on the continuation line
C30_Witness ==
    /\ Rendered /\ IsHexForm
    /\ Len(Value.BinaryValue) = 25
    /\ Len(Line) > 9
    /\ Backslashes = {Len(Line) - 8}
    /\ SubSeq(Line, Len(Line) - 8, Len(Line) - 4) = EscapedNewLine \o Spaces(HexNewLineLeadingSpaces)

\* 24 bytes under the default name: the 24th byte has no separator, no
\* continuation is written although the line is 77 characters long
C30_NoWrapAfterLastByte ==
    /\ Rendered /\ IsHexForm
    /\ Value.Name = <<>> /\ Value.Type = REG_BINARY
    /\ Len(Value.BinaryValue) = 24
    /\ Backslashes = {}
    /\ Len(Line) = 6 + 3 * 24 - 1 + 2

\* a string list with continuations
C30_ListContinued ==
    /\ IsStringList
    /\ Cardinality(Continuations) >= 2

=============================================================================
